---- MODULE Spec2Model ----
(***************************************************************************)
(* Signal generation and risk-sizing engine of polymarket_indicator.       *)
(*                                                                         *)
(* Part A: the fetch layer as a state machine of asyncio tasks.            *)
(*   Spec      - with_retry and the per-source circuit breaker of          *)
(*               app/fetchers/base.py, called directly by two tasks.       *)
(*   SpecFetch - the source fetchers' _do_fetch bodies under with_retry    *)
(*               and the orchestrator of app/fetchers/registry.py.         *)
(*                                                                         *)
(* Part B: the composite scorer and run_engine of app/signal.              *)
(*   SpecEngine   - weighted_score and run_engine on bounded arguments.    *)
(*   SpecSizing   - score_to_model_p, direction_from_edge, kelly_fraction, *)
(*                  recommended_size_usd and max_safe_size_usd.            *)
(*   SpecIntraday - the 15-minute engine of app/signal/engine_15m.py next  *)
(*                  to run_engine.                                         *)
(*   SpecMarket   - run_fetchers_for_market of app/fetchers/registry.py.   *)
(*                                                                         *)
(* Part C: coroutines around the engine.                                   *)
(*   SpecRate     - wait_if_needed of app/telegram/rate_limit.py.          *)
(*   SpecDaily    - run_daily_signal_broadcast over table signal_runs.     *)
(*   SpecOutcomes - record_run_outcome and run_eod_outcomes of             *)
(*                  app/outcomes/recorder.py.                              *)
(*                                                                         *)
(* Encoding: Python's None is the empty sequence, a present value v is     *)
(* <<v>>.  A normalized_score is carried in tenths (2.0 -> 20), a momentum *)
(* return in basis points.  The floats of Part B are exact fractions       *)
(* [n, d] in lowest terms.  Time is in whole seconds in Parts A and B;     *)
(* each specification of Part C states its own unit.                       *)
(***************************************************************************)
EXTENDS Integers, Sequences, FiniteSets, TLC

\* ------------------------------------------------------------------ bounds
MaxTime == 4
MaxThreshold == 2
MaxAttempts == 2
MaxOpenSeconds == 2

\* ------------------------------------------------------- optional values
None == <<>>
Some(v) == <<v>>
IsNone(o) == o = <<>>
Val(o) == o[1]

\* ------------------------------------------------------- Python floats
\* A float is carried as the exact fraction n/d in lowest terms (d > 0).
\* d = 0 stands for the ZeroDivisionError a division raised.
Abs(x) == IF x < 0 THEN 0 - x ELSE x
RECURSIVE GCD(_, _)
GCD(a, b) == IF b = 0 THEN a ELSE GCD(b, a % b)
R(n, d) == LET g == GCD(Abs(n), d) IN [n |-> n \div g, d |-> d \div g]
ZeroDivisionError == [n |-> 0, d |-> 0]
\* Sums and comparisons go through the least common denominator, products
\* cancel across before multiplying, so that intermediate values stay small.
RAdd(a, b) ==
  LET g == GCD(a.d, b.d) IN
  R(a.n * (b.d \div g) + b.n * (a.d \div g), (a.d \div g) * b.d)
RSub(a, b) ==
  LET g == GCD(a.d, b.d) IN
  R(a.n * (b.d \div g) - b.n * (a.d \div g), (a.d \div g) * b.d)
RMul(a, b) ==
  LET g1 == GCD(Abs(a.n), b.d)
      g2 == GCD(Abs(b.n), a.d)
  IN  R((a.n \div g1) * (b.n \div g2), (a.d \div g2) * (b.d \div g1))
RDiv(a, b) ==
  IF b.n = 0 THEN ZeroDivisionError
  ELSE IF b.n > 0 THEN RMul(a, [n |-> b.d, d |-> b.n])
  ELSE RMul(a, [n |-> 0 - b.d, d |-> 0 - b.n])
RLe(a, b) ==
  LET g == GCD(a.d, b.d) IN a.n * (b.d \div g) <= b.n * (a.d \div g)
RLt(a, b) ==
  LET g == GCD(a.d, b.d) IN a.n * (b.d \div g) < b.n * (a.d \div g)
RMin(a, b) == IF RLt(b, a) THEN b ELSE a
RMax(a, b) == IF RLt(a, b) THEN b ELSE a
RECURSIVE Pow10(_)
Pow10(k) == IF k <= 0 THEN 1 ELSE 10 * Pow10(k - 1)
\* round(x, ndigits): to the nearest multiple of 10^-ndigits, ties to even.
round(x, ndigits) ==
  LET scale == Pow10(ndigits)
      whole == x.n \div x.d
      q == (x.n - whole * x.d) * scale
      m == q \div x.d
      rem == q - m * x.d
      up == IF 2 * rem > x.d THEN 1
            ELSE IF 2 * rem < x.d THEN 0
            ELSE m % 2
  IN  R(whole * scale + m + up, scale)

\* The tasks that may be inside with_retry at the same time: two overlapping
\* invocations (a scheduled run and a command, or two tasks of one gather).
Callers == {1, 2}

\* ------------------------------------------------------------- variables
VARIABLES
  settings,   \* get_settings(): the validated configuration of the process
  now,        \* time.monotonic()
  circuits,   \* _circuits: source_id -> CircuitState (or absent)
  calls,      \* the frame of each task's with_retry coroutine
  ev,         \* the step just taken and what it handed to its caller
  hist,       \* history per source: consecutive failed calls
  batch,      \* the gather() of _run_fetchers_async in progress
  results,    \* gather's result slot of each task of the batch
  snapshot    \* the list the latest _run_fetchers_async call returned (empty
              \* until it returns)

VARIABLES
  args,       \* the arguments of the scorer/engine call under consideration
  ret         \* what that call handed back (nothing yet before the call)

varsB == <<args, ret>>

VARIABLES
  _locks,       \* rate_limit._locks: per chat, whether the lock exists, who
                \* holds it and who waits for it, in arrival order
  _last_send,   \* rate_limit._last_send: per chat, the time recorded by the
                \* latest wait_if_needed that completed (none before)
  returned_at,  \* per chat, the times of the two latest returns of
                \* wait_if_needed
  signal_runs,  \* the rows of table signal_runs; the id of a row is its index
  tasks         \* the coroutines running against the rate limiter or the
                \* database: position and local variables of each

varsC == <<_locks, _last_send, returned_at, signal_runs, tasks>>

\* Nothing is running against the rate limiter or the database.
IdleC ==
  /\ _locks = <<>>
  /\ _last_send = <<>>
  /\ returned_at = <<>>
  /\ signal_runs = <<>>
  /\ tasks = <<>>

varsA == <<settings, now, circuits, calls, ev, hist, batch, results, snapshot>>

\* ------------------------------------------------------------ FetcherResult
FetcherResult(source_id, raw_value, normalized_score, stale, error) ==
  [source_id |-> source_id, raw_value |-> raw_value,
   normalized_score |-> normalized_score, stale |-> stale, error |-> error]

error_result(source_id, err) ==
  FetcherResult(source_id, None, None, FALSE, Some(err))

\* ------------------------------------------------------------ CircuitState
Absent == [present |-> FALSE, failure_count |-> 0, open_until |-> 0]
CircuitState(fc, ou) == [present |-> TRUE, failure_count |-> fc, open_until |-> ou]


\* ------------------------------------------------------------ configuration
\* Settings fields read by the reliability wrapper (config.py:40-54).  The
\* process reads them from the environment; every value below is inside the
\* range the Field validators accept.
RetryBaseDelay == 1
SettingsChoices ==
  [circuit_failure_threshold : 1..MaxThreshold,
   circuit_open_seconds : 1..MaxOpenSeconds,
   retry_attempts : 1..MaxAttempts,
   retry_base_delay : {RetryBaseDelay},
   edge_threshold : {R(5, 100)},
   kelly_fraction : {R(25, 100)},
   max_bankroll_pct : {R(5, 100)},
   default_bankroll_usd : {R(1000, 1)},
   slippage_limit : {R(1, 100)},
   weight_etf_flows : {None},
   weight_exchange_netflow : {None},
   weight_dxy : {None},
   weight_fear_greed : {None},
   weight_price_ma : {None},
   weight_funding : {None},
   weight_macro : {None},
   weight_coinbase_premium : {None},
   weight_stablecoin_issuance : {None},
   fetch_coinbase_premium : {FALSE},
   fetch_stablecoin_issuance : {FALSE}]

\* The configurations the scorer and the engine are exercised under: the
\* defaults, with the weight overrides and the optional-fetcher flag varied
\* inside their validated range [0, 1].
EngineSettingsChoices ==
  [circuit_failure_threshold : {1},
   circuit_open_seconds : {1},
   retry_attempts : {1},
   retry_base_delay : {RetryBaseDelay},
   edge_threshold : {R(5, 100)},
   kelly_fraction : {R(25, 100)},
   max_bankroll_pct : {R(5, 100)},
   default_bankroll_usd : {R(1000, 1)},
   slippage_limit : {R(1, 100)},
   weight_etf_flows : {None, Some(R(0, 1)), Some(R(1, 1))},
   weight_exchange_netflow : {None},
   weight_dxy : {None},
   weight_fear_greed : {None},
   weight_price_ma : {None},
   weight_funding : {None},
   weight_macro : {None},
   weight_coinbase_premium : {None, Some(R(0, 1))},
   weight_stablecoin_issuance : {None},
   fetch_coinbase_premium : BOOLEAN,
   fetch_stablecoin_issuance : {FALSE}]

RECURSIVE Pow2(_)
Pow2(n) == IF n <= 0 THEN 1 ELSE 2 * Pow2(n - 1)

\* ------------------------------------------------- circuit breaker (base.py)
\* Variant: an open circuit is reported, but the entry is cleared as well.
_circuit_open_clears_when_open(source_id) ==
  LET state == circuits[source_id] IN
  IF ~state.present THEN [open |-> FALSE, circuits |-> circuits]
  ELSE IF state.open_until > now
    THEN [open |-> TRUE,
          circuits |-> [circuits EXCEPT ![source_id] = CircuitState(0, state.open_until)]]
  ELSE [open |-> FALSE,
        circuits |-> [circuits EXCEPT ![source_id] = CircuitState(0, 0)]]

\* Variant: half-open by trial, the entry is kept once the deadline passed.
_circuit_open_keeps_state(source_id) ==
  LET state == circuits[source_id] IN
  IF ~state.present THEN [open |-> FALSE, circuits |-> circuits]
  ELSE IF state.open_until > now THEN [open |-> TRUE, circuits |-> circuits]
  ELSE [open |-> FALSE, circuits |-> circuits]

\* _circuit_open(source_id): the answer and the table it leaves behind.
_circuit_open(source_id) ==
  LET state == circuits[source_id] IN
  IF ~state.present THEN [open |-> FALSE, circuits |-> circuits]
  ELSE IF state.open_until > now THEN [open |-> TRUE, circuits |-> circuits]
  ELSE [open |-> FALSE,
        circuits |-> [circuits EXCEPT ![source_id] = CircuitState(0, 0)]]

\* Variant: a success leaves the count alone.
_record_success_keeps_count(source_id) == circuits

_record_success(source_id) ==
  LET state == circuits[source_id] IN
  IF state.present
    THEN [circuits EXCEPT ![source_id] = CircuitState(0, state.open_until)]
    ELSE circuits

\* Variant: the circuit opens one failure late.
_record_failure_opens_late(source_id) ==
  LET state == IF circuits[source_id].present THEN circuits[source_id]
               ELSE CircuitState(0, 0)
      fc == state.failure_count + 1
  IN  IF fc > settings.circuit_failure_threshold
        THEN [circuits EXCEPT ![source_id] =
                CircuitState(fc, now + settings.circuit_open_seconds)]
        ELSE [circuits EXCEPT ![source_id] = CircuitState(fc, state.open_until)]

_record_failure(source_id) ==
  LET state == IF circuits[source_id].present THEN circuits[source_id]
               ELSE CircuitState(0, 0)
      fc == state.failure_count + 1
  IN  IF fc >= settings.circuit_failure_threshold
        THEN [circuits EXCEPT ![source_id] =
                CircuitState(fc, now + settings.circuit_open_seconds)]
        ELSE [circuits EXCEPT ![source_id] = CircuitState(fc, state.open_until)]


\* ------------------------------------------------------- bounds.py
\* RAW_BOUNDS, for the sources whose raw value the model carries as a whole
\* number (fear_greed: index points, dxy: percent).  A source without an
\* entry has no bounds; price_1h_momentum has none in the source.
BoundedSources == {"fear_greed", "dxy"}
RAW_BOUNDS(source_id) ==
  IF source_id = "fear_greed" THEN [lo |-> Some(0), hi |-> Some(100)]
  ELSE [lo |-> Some(0 - 20), hi |-> Some(20)]

check_bounds(source_id, raw_value) ==
  IF IsNone(raw_value) THEN TRUE
  ELSE IF source_id \notin BoundedSources THEN TRUE
  ELSE LET lo == RAW_BOUNDS(source_id).lo
           hi == RAW_BOUNDS(source_id).hi
       IN  IF ~IsNone(lo) /\ Val(raw_value) < Val(lo) THEN FALSE
           ELSE IF ~IsNone(hi) /\ Val(raw_value) > Val(hi) THEN FALSE
           ELSE TRUE

out_of_range_result(source_id) ==
  FetcherResult(source_id, None, None, FALSE, Some("out_of_range"))

\* ------------------------------------------------------- source fetchers
\* What the upstream answers to one HTTP request: a transport/HTTP failure,
\* an empty payload, or a payload carrying the number `value`.
Net(kind, value, msg) == [kind |-> kind, value |-> value, msg |-> msg]

\* What one invocation of fetch_fn does: it returns a FetcherResult or it
\* raises; `steps` lists the stages of _do_fetch it went through, in order.
Returned(result, steps) ==
  [kind |-> "return", result |-> Some(result), error |-> "", steps |-> steps]
Raised(msg, steps) ==
  [kind |-> "raise", result |-> None, error |-> msg, steps |-> steps]

\* FearGreedFetcher.normalize: raw index 0..100 -> score (tenths).
fear_greed_normalize(v) ==
  IF v < 25 THEN 20
  ELSE IF v < 40 THEN 10
  ELSE IF v > 80 THEN 0 - 20
  ELSE IF v > 60 THEN 0 - 10
  ELSE 0

\* FearGreedFetcher._do_fetch: every exception is caught inside and turned
\* into an error result, so the coroutine never raises.
fear_greed_do_fetch(net) ==
  IF net.kind = "http_error"
    THEN Returned(error_result("fear_greed", net.msg), <<"get">>)
  ELSE IF net.kind = "no_data"
    THEN Returned(FetcherResult("fear_greed", None, None, FALSE, Some("no_data")),
                  <<"get">>)
  ELSE IF ~check_bounds("fear_greed", Some(net.value))
    THEN Returned(out_of_range_result("fear_greed"), <<"get", "check_bounds">>)
  ELSE Returned(FetcherResult("fear_greed", Some(net.value),
                              Some(fear_greed_normalize(net.value)), FALSE, None),
                <<"get", "check_bounds", "normalize">>)

\* Price1hMomentumFetcher.normalize: raw 1h return in basis points -> score.
momentum_normalize(bp) ==
  IF bp >= 100 THEN 20
  ELSE IF bp >= 50 THEN 10
  ELSE IF bp >= 10 THEN 5
  ELSE IF bp >= 0 - 10 THEN 0
  ELSE IF bp >= 0 - 50 THEN 0 - 5
  ELSE IF bp >= 0 - 100 THEN 0 - 10
  ELSE 0 - 20

\* Price1hMomentumFetcher._do_fetch: no check_bounds call between the raw
\* return and normalize.
momentum_do_fetch(net) ==
  IF net.kind = "http_error"
    THEN Returned(error_result("price_1h_momentum", net.msg), <<"get">>)
  ELSE IF net.kind = "no_data"
    THEN Returned(FetcherResult("price_1h_momentum", None, None, FALSE,
                                Some("insufficient_klines")), <<"get">>)
  ELSE Returned(FetcherResult("price_1h_momentum", Some(net.value),
                              Some(momentum_normalize(net.value)), FALSE, None),
                <<"get", "normalize">>)

\* DxyFetcher._do_fetch: the loop header reads DXY_429_MAX_ATTEMPTS, a name
\* defined nowhere, so every invocation raises NameError before any request.
dxy_do_fetch(net) ==
  Raised("name 'DXY_429_MAX_ATTEMPTS' is not defined", <<>>)

\* A fetch_fn handed to with_retry directly (tests/test_fetchers.py:195-201):
\* it raises RuntimeError(msg) or returns the FetcherResult it was built for.
test_fetch_fn(net) ==
  IF net.kind = "http_error" THEN Raised(net.msg, <<"get">>)
  ELSE IF net.kind = "no_data"
    THEN Returned(FetcherResult("circuit_test_src", None, None, FALSE,
                                Some("no_data")), <<"get">>)
  ELSE Returned(FetcherResult("circuit_test_src", Some(net.value),
                              Some(net.value), FALSE, None), <<"get">>)

fetch_fn(source_id, net) ==
  IF source_id = "fear_greed" THEN fear_greed_do_fetch(net)
  ELSE IF source_id = "price_1h_momentum" THEN momentum_do_fetch(net)
  ELSE IF source_id = "dxy" THEN dxy_do_fetch(net)
  ELSE test_fetch_fn(net)

\* Upstream answers the model draws from, per source.
Failures == {Net("http_error", 0, "timeout"), Net("http_error", 0, "503")}
NetOutcomes(source_id) ==
  IF source_id = "fear_greed"
    THEN Failures \cup {Net("no_data", 0, "")}
         \cup {Net("value", v, "") : v \in {0 - 1, 0, 50, 100, 150}}
  ELSE IF source_id = "price_1h_momentum"
    THEN Failures \cup {Net("no_data", 0, "")}
         \cup {Net("value", v, "") : v \in {0 - 120, 0, 60, 99900}}
  ELSE IF source_id = "dxy" THEN {Net("value", 0, "")}
  ELSE Failures \cup {Net("no_data", 0, ""), Net("value", 10, "")}


\* ------------------------------------------------------- with_retry (base.py)
CircuitSources == {"circuit_test_src", "dxy"}
FetcherSources == {"fear_greed", "price_1h_momentum", "dxy", "custom"}
AllSources == CircuitSources \cup FetcherSources

\* The frame of one with_retry call: where it is suspended, the loop
\* variable `attempt`, `last_error`, the deadline of its sleep, how many
\* times it has invoked fetch_fn and gone to sleep so far, and the message of
\* the exception fetch_fn raised last, and whether no other call for the
\* same source has overlapped it.
IdleCall == [pc |-> "idle", source_id |-> "", attempt |-> 0,
             last_error |-> None, wake_at |-> 0, fetches |-> 0, sleeps |-> 0,
             raised |-> "", alone |-> TRUE]

\* The step just taken: its kind, the task and source, the FetcherResult
\* handed back (if the call returned), what fetch_fn did and on which
\* upstream answer (if it completed), and the call's invocation/sleep counts.
Event(type, c, s, result, fetch, net, fetches, sleeps) ==
  [type |-> type, c |-> c, source_id |-> s, result |-> result, fetch |-> fetch,
   net |-> net, fetches |-> fetches, sleeps |-> sleeps]
NoEvent == Event("init", 0, "", None, None, None, 0, 0)
TickEvent == Event("tick", 0, "", None, None, None, 0, 0)

\* Per source: how many with_retry calls in a row, none overlapping another
\* call for the source, ended with their attempts exhausted, and when that
\* number reached circuit_failure_threshold.
NoHist == [consec_failed |-> 0, reached_at |-> 0]

Min(a, b) == IF a < b THEN a ELSE b

circuit_open_result(source_id) ==
  FetcherResult(source_id, None, None, FALSE, Some("circuit_open"))

\* base.py:107-113, the result after the attempts are exhausted.
exhausted_result(source_id, last_error) ==
  FetcherResult(source_id, None, None, FALSE,
                IF IsNone(last_error) THEN Some("unknown") ELSE last_error)

\* base.py:97, the backoff after failed attempt `attempt` (0-based).
delay(attempt) == settings.retry_base_delay * Pow2(attempt)

\* gather's slot of task c: filled only while the task belongs to a batch.
Deliver(c, slot) ==
  IF batch.active /\ c <= Len(batch.fetchers)
    THEN [results EXCEPT ![c] = slot]
    ELSE results
\* The batch after task c completed: gather remembers who finished when.
Finish(c) ==
  IF batch.active /\ c <= Len(batch.fetchers)
    THEN [batch EXCEPT !.order = Append(@, c)]
    ELSE batch
ReturnedToGather(r) == Some([kind |-> "returned", result |-> Some(r), error |-> ""])
RaisedToGather(msg) == Some([kind |-> "raised", result |-> None, error |-> msg])

\* No other task is inside a with_retry call for source s.
Alone(c, s) == \A o \in Callers \ {c} : calls[o].source_id # s

\* base.py:80-92: the call up to its first suspension.  An open circuit
\* returns at once; otherwise fetch_fn is invoked for attempt 0.
BeginCall(c, s) ==
  LET chk == _circuit_open(s) IN
  /\ circuits' = chk.circuits
  /\ IF chk.open
       THEN /\ calls' = [calls EXCEPT ![c] = IdleCall]
            /\ results' = Deliver(c, ReturnedToGather(circuit_open_result(s)))
            /\ batch' = Finish(c)
            /\ ev' = Event("short", c, s, Some(circuit_open_result(s)),
                           None, None, 0, 0)
       ELSE /\ calls' = [o \in Callers |->
                           IF o = c
                             THEN [IdleCall EXCEPT !.pc = "fetching",
                                                   !.source_id = s,
                                                   !.fetches = 1,
                                                   !.alone = Alone(c, s)]
                           ELSE IF calls[o].source_id = s
                             THEN [calls[o] EXCEPT !.alone = FALSE]
                           ELSE calls[o]]
            /\ results' = results
            /\ batch' = batch
            /\ ev' = Event("invoke", c, s, None, None, None, 1, 0)

\* A caller awaits with_retry(source_id, fetch_fn) directly.
Call(c, s) ==
  /\ ~batch.active
  /\ calls[c].pc = "idle"
  /\ BeginCall(c, s)
  /\ UNCHANGED <<settings, now, hist, snapshot>>
  /\ UNCHANGED <<varsB, varsC>>

\* base.py:92-94: fetch_fn returned; the count is reset and its result is
\* handed back as it is.
FetchReturn(c, net) ==
  LET s == calls[c].source_id
      out == fetch_fn(s, net)
  IN  /\ calls[c].pc = "fetching"
      /\ net \in NetOutcomes(s)
      /\ out.kind = "return"
      /\ circuits' = _record_success(s)
      /\ results' = Deliver(c, ReturnedToGather(Val(out.result)))
      /\ ev' = Event("return", c, s, out.result, Some(out), Some(net),
                     calls[c].fetches, calls[c].sleeps)
      /\ calls' = [calls EXCEPT ![c] = IdleCall]
      /\ hist' = [hist EXCEPT ![s] = NoHist]
      /\ batch' = Finish(c)
      /\ UNCHANGED <<settings, now, snapshot>>
      /\ UNCHANGED <<varsB, varsC>>

\* base.py:95-105: fetch_fn raised; remember the exception and sleep.
FetchRaise(c, net) ==
  LET s == calls[c].source_id
      out == fetch_fn(s, net)
  IN  /\ calls[c].pc = "fetching"
      /\ net \in NetOutcomes(s)
      /\ out.kind = "raise"
      /\ calls' = [calls EXCEPT ![c].pc = "sleeping",
                                ![c].last_error = Some(out.error),
                                ![c].wake_at = now + delay(calls[c].attempt),
                                ![c].sleeps = @ + 1,
                                ![c].raised = out.error]
      /\ ev' = Event("raise", c, s, None, Some(out), Some(net),
                     calls[c].fetches, calls[c].sleeps + 1)
      /\ UNCHANGED <<settings, now, circuits, results, hist, batch, snapshot>>
      /\ UNCHANGED <<varsB, varsC>>

\* base.py:90-92: the sleep is over and attempts remain: invoke fetch_fn again.
WakeRetry(c) ==
  /\ calls[c].pc = "sleeping"
  /\ now >= calls[c].wake_at
  /\ calls[c].attempt + 1 < settings.retry_attempts
  /\ calls' = [calls EXCEPT ![c].pc = "fetching", ![c].attempt = @ + 1,
                            ![c].fetches = @ + 1]
  /\ ev' = Event("retry", c, calls[c].source_id, None, None, None,
                 calls[c].fetches + 1, calls[c].sleeps)
  /\ UNCHANGED <<settings, now, circuits, results, hist, batch, snapshot>>
  /\ UNCHANGED <<varsB, varsC>>

\* base.py:106-113: the sleep is over and no attempt remains: record the
\* failure and return the error result.
WakeExhausted(c) ==
  LET s == calls[c].source_id
      r == exhausted_result(s, calls[c].last_error)
      n == IF calls[c].alone
             THEN Min(hist[s].consec_failed + 1, settings.circuit_failure_threshold)
             ELSE 0
  IN  /\ calls[c].pc = "sleeping"
      /\ now >= calls[c].wake_at
      /\ calls[c].attempt + 1 >= settings.retry_attempts
      /\ circuits' = _record_failure(s)
      /\ results' = Deliver(c, ReturnedToGather(r))
      /\ ev' = Event("exhausted", c, s, Some(r), None, None,
                     calls[c].fetches, calls[c].sleeps)
      /\ calls' = [calls EXCEPT ![c] = IdleCall]
      /\ hist' = [hist EXCEPT ![s] =
                    [consec_failed |-> n,
                     reached_at |-> IF n >= settings.circuit_failure_threshold
                                      THEN now ELSE 0]]
      /\ batch' = Finish(c)
      /\ UNCHANGED <<settings, now, snapshot>>
      /\ UNCHANGED <<varsB, varsC>>

\* time.monotonic() advances.
Tick ==
  /\ now < MaxTime
  /\ now' = now + 1
  /\ ev' = TickEvent
  /\ UNCHANGED <<settings, circuits, calls, hist, batch, results, snapshot>>
  /\ UNCHANGED <<varsB, varsC>>

NoBatch == [active |-> FALSE, fetchers |-> <<>>, order |-> <<>>]

InitA ==
  /\ settings \in SettingsChoices
  /\ now = 1
  /\ circuits = [s \in AllSources |-> Absent]
  /\ calls = [c \in Callers |-> IdleCall]
  /\ ev = NoEvent
  /\ hist = [s \in AllSources |-> NoHist]
  /\ batch = NoBatch
  /\ results = [c \in Callers |-> None]
  /\ snapshot = <<>>
  /\ args = None
  /\ ret = None
  /\ IdleC

NextRetry ==
  \/ \E c \in Callers, s \in CircuitSources : Call(c, s)
  \/ \E c \in Callers : \E net \in NetOutcomes(calls[c].source_id) : FetchReturn(c, net)
  \/ \E c \in Callers : \E net \in NetOutcomes(calls[c].source_id) : FetchRaise(c, net)
  \/ \E c \in Callers : WakeRetry(c)
  \/ \E c \in Callers : WakeExhausted(c)
  \/ Tick

vars == <<settings, now, circuits, calls, ev, hist, batch, results, snapshot,
          args, ret, _locks, _last_send, returned_at, signal_runs, tasks>>
Init == InitA
Next == NextRetry
Spec == Init /\ [][Next]_vars

\* ------------------------------------------- fetch orchestrator (registry.py)
\* The fetcher lists handed to _run_fetchers_async: the registry builds lists
\* of fetchers with pairwise different source ids.
FetcherLists ==
  {<<a>> : a \in FetcherSources}
  \cup {p \in FetcherSources \X FetcherSources : p[1] # p[2]}

\* What fetch() of a fetcher without with_retry does in one go: it returns
\* the FetcherResult of its own source or an exception escapes it.
DirectOutcomes(source_id) ==
  {Returned(FetcherResult(source_id, None, None, FALSE, Some("no_api_key")), <<>>),
   Returned(FetcherResult(source_id, Some(1), Some(10), FALSE, None), <<>>),
   Raised("boom", <<>>)}

\* Variant: failed tasks are left out of the returned list.
RECURSIVE collect_drops_failed(_, _, _)
collect_drops_failed(fetchers, rs, i) ==
  IF i > Len(fetchers) THEN <<>>
  ELSE LET r == Val(rs[i]) IN
       (IF r.kind = "returned" THEN <<Val(r.result)>> ELSE <<>>)
       \o collect_drops_failed(fetchers, rs, i + 1)
_run_fetchers_async_drops_failed(fetchers, rs) ==
  collect_drops_failed(fetchers, rs, 1)

\* registry.py:70-84, the loop over gather's results from index i on.
RECURSIVE collect(_, _, _)
collect(fetchers, rs, i) ==
  IF i > Len(fetchers) THEN <<>>
  ELSE LET r == Val(rs[i]) IN
       (IF r.kind = "raised"
          THEN <<FetcherResult(fetchers[i], None, None, FALSE, Some(r.error))>>
        ELSE IF r.kind = "returned" THEN <<Val(r.result)>>
        ELSE <<>>)
       \o collect(fetchers, rs, i + 1)

\* _run_fetchers_async(fetchers), given what gather collected.
_run_fetchers_async(fetchers, rs) == collect(fetchers, rs, 1)

\* registry.py:69: gather creates one task per fetcher.
StartBatch(fs) ==
  /\ ~batch.active
  /\ \A c \in Callers : calls[c].pc = "idle"
  /\ batch' = [active |-> TRUE, fetchers |-> fs, order |-> <<>>]
  /\ results' = [c \in Callers |-> None]
  /\ calls' = [c \in Callers |->
                 IF c <= Len(fs)
                   THEN [IdleCall EXCEPT !.pc = "pending", !.source_id = fs[c]]
                   ELSE IdleCall]
  /\ snapshot' = <<>>
  /\ ev' = Event("gather", 0, "", None, None, None, 0, 0)
  /\ UNCHANGED <<settings, now, circuits, hist>>
  /\ UNCHANGED <<varsB, varsC>>

\* A task of the batch runs fetch() of a fetcher built on with_retry.
TaskStart(c) ==
  /\ calls[c].pc = "pending"
  /\ calls[c].source_id # "custom"
  /\ BeginCall(c, calls[c].source_id)
  /\ UNCHANGED <<settings, now, hist, snapshot>>
  /\ UNCHANGED <<varsB, varsC>>

\* A task of the batch runs fetch() of a fetcher that does not go through
\* with_retry: it returns a result or the exception lands in gather's slot.
DirectFetch(c, out) ==
  LET s == calls[c].source_id IN
  /\ calls[c].pc = "pending"
  /\ s = "custom"
  /\ out \in DirectOutcomes(s)
  /\ results' = Deliver(c, IF out.kind = "raise" THEN RaisedToGather(out.error)
                            ELSE ReturnedToGather(Val(out.result)))
  /\ batch' = Finish(c)
  /\ calls' = [calls EXCEPT ![c] = IdleCall]
  /\ ev' = Event("direct", c, s, out.result, Some(out), None, 1, 0)
  /\ UNCHANGED <<settings, now, circuits, hist, snapshot>>
  /\ UNCHANGED <<varsB, varsC>>

\* registry.py:70-85: every task is done; gather hands over the slots and the
\* list is built and returned.
Collect ==
  /\ batch.active
  /\ \A c \in 1..Len(batch.fetchers) : results[c] # None
  /\ snapshot' = _run_fetchers_async(batch.fetchers, results)
  /\ batch' = [batch EXCEPT !.active = FALSE]
  /\ ev' = Event("collect", 0, "", None, None, None, 0, 0)
  /\ UNCHANGED <<settings, now, circuits, calls, hist, results>>
  /\ UNCHANGED <<varsB, varsC>>

NextFetch ==
  \/ \E fs \in FetcherLists : StartBatch(fs)
  \/ \E c \in Callers : TaskStart(c)
  \/ \E c \in Callers : \E out \in DirectOutcomes(calls[c].source_id) : DirectFetch(c, out)
  \/ \E c \in Callers : \E net \in NetOutcomes(calls[c].source_id) : FetchReturn(c, net)
  \/ \E c \in Callers : \E net \in NetOutcomes(calls[c].source_id) : FetchRaise(c, net)
  \/ \E c \in Callers : WakeRetry(c)
  \/ \E c \in Callers : WakeExhausted(c)
  \/ Collect
  \/ Tick

SpecFetch == Init /\ [][NextFetch]_vars

\* ================================================= Part B: scorer and engine
\* ------------------------------------------------------------- weights.py
DEFAULT_WEIGHTS ==
  [etf_flows |-> R(25, 100), exchange_netflow |-> R(20, 100), dxy |-> R(15, 100),
   fear_greed |-> R(10, 100), price_ma |-> R(15, 100), funding |-> R(10, 100),
   macro |-> R(5, 100)]

DEFAULT_OPTIONAL_WEIGHTS ==
  [coinbase_premium |-> R(5, 100), stablecoin_issuance |-> R(5, 100)]

HOURLY_WEIGHTS ==
  [price_1h_momentum |-> R(35, 100), funding |-> R(20, 100),
   fear_greed |-> R(15, 100), price_ma |-> R(15, 100),
   exchange_netflow |-> R(15, 100), etf_flows |-> R(0, 1), dxy |-> R(0, 1),
   macro |-> R(0, 1), coinbase_premium |-> R(0, 1),
   stablecoin_issuance |-> R(0, 1)]

\* `x if x is not None else d`
IfSet(x, d) == IF IsNone(x) THEN d ELSE Val(x)
\* `x or d` on an optional float: None and 0.0 are both falsy.
OrElse(x, d) == IF IsNone(x) \/ Val(x).n = 0 THEN d ELSE Val(x)

\* get_weights(): the defaults, overridden from the settings, plus the
\* enabled optional sources.
get_weights ==
  LET keys == DOMAIN DEFAULT_WEIGHTS
              \cup (IF settings.fetch_coinbase_premium
                      THEN {"coinbase_premium"} ELSE {})
              \cup (IF settings.fetch_stablecoin_issuance
                      THEN {"stablecoin_issuance"} ELSE {})
  IN  [k \in keys |->
        IF k = "etf_flows"
          THEN IfSet(settings.weight_etf_flows, DEFAULT_WEIGHTS.etf_flows)
        ELSE IF k = "exchange_netflow"
          THEN IfSet(settings.weight_exchange_netflow, DEFAULT_WEIGHTS.exchange_netflow)
        ELSE IF k = "dxy" THEN IfSet(settings.weight_dxy, DEFAULT_WEIGHTS.dxy)
        ELSE IF k = "fear_greed"
          THEN IfSet(settings.weight_fear_greed, DEFAULT_WEIGHTS.fear_greed)
        ELSE IF k = "price_ma"
          THEN IfSet(settings.weight_price_ma, DEFAULT_WEIGHTS.price_ma)
        ELSE IF k = "funding"
          THEN IfSet(settings.weight_funding, DEFAULT_WEIGHTS.funding)
        ELSE IF k = "macro" THEN IfSet(settings.weight_macro, DEFAULT_WEIGHTS.macro)
        ELSE IF k = "coinbase_premium"
          THEN OrElse(settings.weight_coinbase_premium,
                      DEFAULT_OPTIONAL_WEIGHTS.coinbase_premium)
        ELSE OrElse(settings.weight_stablecoin_issuance,
                    DEFAULT_OPTIONAL_WEIGHTS.stablecoin_issuance)]

\* dict.get(source_id, 0.0)
Get(w, source_id) == IF source_id \in DOMAIN w THEN w[source_id] ELSE R(0, 1)

\* A normalized_score (tenths) as the float the scorer multiplies.
Score(v) == R(v, 10)

\* weights.py:76-83, the loop from index i on with the sums so far.
RECURSIVE accumulate(_, _, _, _)
accumulate(tuples, w, i, acc) ==
  IF i > Len(tuples) THEN acc
  ELSE IF IsNone(tuples[i].score) THEN accumulate(tuples, w, i + 1, acc)
  ELSE LET weight == Get(w, tuples[i].source_id) IN
       accumulate(tuples, w, i + 1,
                  [total |-> RAdd(acc.total, RMul(Score(Val(tuples[i].score)), weight)),
                   total_weight |-> RAdd(acc.total_weight, weight)])

\* `weights or get_weights()`: None and the empty dict are both falsy.
EffectiveWeights(weights) ==
  IF IsNone(weights) THEN get_weights
  ELSE IF DOMAIN Val(weights) = {} THEN get_weights
  ELSE Val(weights)

\* Variant: the weighted sum is divided by the total of the weight table.
RECURSIVE SumWeights(_, _)
SumWeights(w, keys) ==
  IF keys = {} THEN R(0, 1)
  ELSE LET k == CHOOSE x \in keys : TRUE IN RAdd(w[k], SumWeights(w, keys \ {k}))
weighted_score_configured_total(tuples, weights) ==
  LET w == EffectiveWeights(weights)
      acc == accumulate(tuples, w, 1, [total |-> R(0, 1), total_weight |-> R(0, 1)])
  IN  IF acc.total_weight.n <= 0 THEN R(0, 1)
      ELSE RMax(R(0 - 2, 1), RMin(R(2, 1), RDiv(acc.total, SumWeights(w, DOMAIN w))))

\* Variant: no guard on the accumulated weight before the division.
weighted_score_unguarded(tuples, weights) ==
  LET w == EffectiveWeights(weights)
      acc == accumulate(tuples, w, 1, [total |-> R(0, 1), total_weight |-> R(0, 1)])
      raw == RDiv(acc.total, acc.total_weight)
  IN  IF raw = ZeroDivisionError THEN raw
      ELSE RMax(R(0 - 2, 1), RMin(R(2, 1), raw))

weighted_score(tuples, weights) ==
  LET w == EffectiveWeights(weights)
      acc == accumulate(tuples, w, 1, [total |-> R(0, 1), total_weight |-> R(0, 1)])
  IN  IF acc.total_weight.n <= 0 THEN R(0, 1)
      ELSE LET raw == RDiv(acc.total, acc.total_weight) IN
           RMax(R(0 - 2, 1), RMin(R(2, 1), raw))

\* ------------------------------------------------------- score_to_prob.py
\* Variant: the linear map without the clamp at the two ends.
score_to_model_p_unclamped(score) ==
  round(RAdd(R(15, 100),
             RMul(RDiv(RAdd(score, R(2, 1)), R(4, 1)), R(70, 100))), 4)

score_to_model_p(score) ==
  IF RLe(score, R(0 - 2, 1)) THEN R(15, 100)
  ELSE IF RLe(R(2, 1), score) THEN R(85, 100)
  ELSE round(RAdd(R(15, 100),
                  RMul(RDiv(RAdd(score, R(2, 1)), R(4, 1)), R(70, 100))), 4)

\* ------------------------------------------------------------------ edge.py
compute_edge(model_p, market_p_yes) == round(RSub(model_p, market_p_yes), 4)

\* Variant: the threshold is exclusive.
direction_from_edge_exclusive(model_p, market_p_yes, market_bid) ==
  LET edge_yes == compute_edge(model_p, market_p_yes) IN
  IF RLt(settings.edge_threshold, edge_yes)
    THEN [direction |-> "YES", edge |-> edge_yes]
  ELSE IF ~IsNone(market_bid)
          /\ RLt(settings.edge_threshold, round(RSub(Val(market_bid), model_p), 4))
    THEN [direction |-> "NO", edge |-> round(RSub(Val(market_bid), model_p), 4)]
  ELSE [direction |-> "NO_TRADE", edge |-> edge_yes]

\* Variant: the YES edge is reported with every direction.
direction_from_edge_reports_yes_edge(model_p, market_p_yes, market_bid) ==
  LET edge_yes == compute_edge(model_p, market_p_yes) IN
  IF RLe(settings.edge_threshold, edge_yes)
    THEN [direction |-> "YES", edge |-> edge_yes]
  ELSE IF ~IsNone(market_bid)
          /\ RLe(settings.edge_threshold, round(RSub(Val(market_bid), model_p), 4))
    THEN [direction |-> "NO", edge |-> edge_yes]
  ELSE [direction |-> "NO_TRADE", edge |-> edge_yes]

direction_from_edge(model_p, market_p_yes, market_bid) ==
  LET edge_yes == compute_edge(model_p, market_p_yes) IN
  IF RLe(settings.edge_threshold, edge_yes)
    THEN [direction |-> "YES", edge |-> edge_yes]
  ELSE IF ~IsNone(market_bid)
          /\ RLe(settings.edge_threshold, round(RSub(Val(market_bid), model_p), 4))
    THEN [direction |-> "NO", edge |-> round(RSub(Val(market_bid), model_p), 4)]
  ELSE [direction |-> "NO_TRADE", edge |-> edge_yes]

\* ----------------------------------------------------------------- kelly.py
\* Variant: the result is not clamped to [0, 1].
kelly_fraction_unclamped(model_p, price_yes) ==
  IF price_yes.n <= 0 \/ RLe(R(1, 1), price_yes) THEN R(0, 1)
  ELSE LET q == RSub(R(1, 1), model_p)
           b == RDiv(RSub(R(1, 1), price_yes), price_yes)
       IN  RDiv(RSub(RMul(model_p, b), q), b)

kelly_fraction(model_p, price_yes) ==
  IF price_yes.n <= 0 \/ RLe(R(1, 1), price_yes) THEN R(0, 1)
  ELSE LET q == RSub(R(1, 1), model_p)
           b == RDiv(RSub(R(1, 1), price_yes), price_yes)
           k == RDiv(RSub(RMul(model_p, b), q), b)
       IN  RMax(R(0, 1), RMin(R(1, 1), k))

\* Variant: the liquidity-safe size is left out of the minimum.
recommended_size_usd_no_liquidity_cap(model_p, market_p_yes, bankroll_usd, max_safe_size_usd, max_bet_usd, kelly_fraction_override) ==
  LET k == kelly_fraction(model_p, market_p_yes)
      frac == IfSet(kelly_fraction_override, settings.kelly_fraction)
      rec == RMin(RMul(RMul(bankroll_usd, k), frac),
                  RMul(bankroll_usd, settings.max_bankroll_pct))
  IN  IF ~IsNone(max_bet_usd) /\ Val(max_bet_usd).n > 0
        THEN round(RMin(rec, Val(max_bet_usd)), 2)
        ELSE round(rec, 2)

recommended_size_usd(model_p, market_p_yes, bankroll_usd, max_safe_size_usd, max_bet_usd, kelly_fraction_override) ==
  LET k == kelly_fraction(model_p, market_p_yes)
      frac == IfSet(kelly_fraction_override, settings.kelly_fraction)
      cap_pct == settings.max_bankroll_pct
      size_kelly == RMul(RMul(bankroll_usd, k), frac)
      size_cap_pct == RMul(bankroll_usd, cap_pct)
      size_liquidity == max_safe_size_usd
      rec == RMin(RMin(size_kelly, size_cap_pct), size_liquidity)
  IN  IF ~IsNone(max_bet_usd) /\ Val(max_bet_usd).n > 0
        THEN round(RMin(rec, Val(max_bet_usd)), 2)
        ELSE round(rec, 2)

\* ------------------------------------------------------------- reasoning.py
\* build_reasoning(results): the contributions are computed with
\* get_weights(), whatever table the composite was computed with.
build_reasoning(rs) ==
  LET weights == get_weights IN
  [i \in 1..Len(rs) |->
     [factor |-> rs[i].source_id,
      raw_value |-> rs[i].raw_value,
      contribution |->
        IF IsNone(rs[i].normalized_score) THEN None
        ELSE Some(round(RMul(Score(Val(rs[i].normalized_score)),
                             Get(weights, rs[i].source_id)), 4)),
      stale |-> rs[i].stale,
      error |-> rs[i].error]]

\* ---------------------------------------------------------------- engine.py
MarketQuote(best_bid, best_ask, max_safe_size_usd) ==
  [best_bid |-> best_bid, best_ask |-> best_ask,
   spread |-> round(RSub(best_ask, best_bid), 4),
   implied_prob_yes |-> best_ask, max_safe_size_usd |-> max_safe_size_usd]

_results_to_score_tuples(rs) ==
  [i \in 1..Len(rs) |->
     [source_id |-> rs[i].source_id, score |-> rs[i].normalized_score]]

\* Variant: every direction other than YES is sized as a NO purchase.
_recommended_and_liquidity_warning_any_direction(direction, model_p, market_p, bankroll_usd, quote, max_bet_usd, kelly_fraction_override) ==
  LET price_no == RMax(R(1, 100), RMin(R(99, 100), RSub(R(1, 1), market_p)))
      rec == IF direction = "YES"
               THEN recommended_size_usd(model_p, market_p, bankroll_usd,
                                         quote.max_safe_size_usd, max_bet_usd,
                                         kelly_fraction_override)
               ELSE recommended_size_usd(RSub(R(1, 1), model_p), price_no,
                                         bankroll_usd, quote.max_safe_size_usd,
                                         max_bet_usd, kelly_fraction_override)
      thin == \/ RLt(quote.max_safe_size_usd, R(100, 1))
              \/ RLe(RMul(quote.max_safe_size_usd, R(99, 100)), rec)
  IN  [rec |-> rec, warn |-> IF thin THEN Some("Thin liquidity") ELSE None]

_recommended_and_liquidity_warning(direction, model_p, market_p, bankroll_usd, quote, max_bet_usd, kelly_fraction_override) ==
  IF direction \notin {"YES", "NO"} THEN [rec |-> R(0, 1), warn |-> None]
  ELSE LET price_no == RMax(R(1, 100), RMin(R(99, 100), RSub(R(1, 1), market_p)))
           rec == IF direction = "YES"
                    THEN recommended_size_usd(model_p, market_p, bankroll_usd,
                                              quote.max_safe_size_usd, max_bet_usd,
                                              kelly_fraction_override)
                    ELSE recommended_size_usd(RSub(R(1, 1), model_p), price_no,
                                              bankroll_usd, quote.max_safe_size_usd,
                                              max_bet_usd, kelly_fraction_override)
           thin == \/ RLt(quote.max_safe_size_usd, R(100, 1))
                   \/ RLe(RMul(quote.max_safe_size_usd, R(99, 100)), rec)
       IN  [rec |-> rec, warn |-> IF thin THEN Some("Thin liquidity") ELSE None]

\* What a call hands back: the value it returned, or the exception it raised.
Ok(v) == [raised |-> FALSE, value |-> Some(v)]
Raise(msg) == [raised |-> TRUE, value |-> Some(msg)]

\* run_engine(snapshot, quote, ..., bankroll_usd, weights, max_bet_usd,
\* kelly_fraction_override), with a = the arguments.
run_engine(a) ==
  LET bankroll_usd == OrElse(a.bankroll_usd, settings.default_bankroll_usd)
      tuples == _results_to_score_tuples(a.results)
      composite == weighted_score(tuples, a.weights)
  IN  IF composite = ZeroDivisionError THEN Raise("ZeroDivisionError")
      ELSE LET model_p == score_to_model_p(composite)
               market_p == a.quote.implied_prob_yes
               market_bid == Some(a.quote.best_bid)
               de == direction_from_edge(model_p, market_p, market_bid)
               rl == _recommended_and_liquidity_warning(
                       de.direction, model_p, market_p, bankroll_usd, a.quote,
                       a.max_bet_usd, a.kelly_fraction_override)
           IN  Ok([direction |-> de.direction,
                   model_p |-> model_p,
                   market_p |-> market_p,
                   edge |-> de.edge,
                   recommended_usd |-> rl.rec,
                   reasoning |-> build_reasoning(a.results),
                   liquidity_warning |-> rl.warn,
                   user_bet_cap_usd |-> a.max_bet_usd,
                   kelly_fraction_used |-> a.kelly_fraction_override])

\* ------------------------------------------------- the calls under analysis
\* The sources of the snapshots handed to the scorer, in registry order, and
\* the scores (tenths) their normalize functions produce.
EngineSources == <<"etf_flows", "funding", "coinbase_premium", "price_1h_momentum">>
ScoreChoices == {None, Some(0 - 10), Some(20)}

\* A snapshot entry of a source: scored, or failed without a score.
SnapshotEntry(source_id, score) ==
  IF IsNone(score) THEN error_result(source_id, "timeout")
  ELSE FetcherResult(source_id, Some(1), score, FALSE, None)

Snapshots ==
  {[i \in 1..Len(EngineSources) |-> SnapshotEntry(EngineSources[i], f[i])] :
     f \in [1..Len(EngineSources) -> ScoreChoices]}

\* The weight tables callers pass: none, or what run_fetchers_for_market
\* returned (HOURLY_WEIGHTS for an hourly market, get_weights() otherwise).
WeightArgs == {None, Some(HOURLY_WEIGHTS), Some(get_weights)}

Quotes ==
  {MarketQuote(R(b, 100), R(b + 2, 100), m) :
     b \in {40, 48, 58}, m \in {R(50, 1), R(500, 1)}}

ArgsChoices ==
  [fn : {"run_engine"},
   results : Snapshots, weights : WeightArgs, quote : Quotes,
   bankroll_usd : {None, Some(R(2000, 1))},
   max_bet_usd : {None}, kelly_fraction_override : {None}]

Returned_(fn, r) == Some([fn |-> fn, raised |-> r.raised, value |-> r.value])

\* A caller evaluates weighted_score(tuples, weights) on the snapshot.
CallWeightedScore ==
  /\ args # None
  /\ args.fn = "run_engine"
  /\ ret = None
  /\ ret' = LET c == weighted_score(_results_to_score_tuples(args.results),
                                    args.weights)
            IN  Returned_("weighted_score",
                          IF c = ZeroDivisionError THEN Raise("ZeroDivisionError")
                          ELSE Ok(c))
  /\ UNCHANGED <<args, varsA, varsC>>

\* A caller evaluates run_engine on the snapshot and the quote.
CallRunEngine ==
  /\ args # None
  /\ args.fn = "run_engine"
  /\ ret = None
  /\ ret' = Returned_("run_engine", run_engine(args))
  /\ UNCHANGED <<args, varsA, varsC>>

InitEngine ==
  /\ settings \in EngineSettingsChoices
  /\ now = 1
  /\ circuits = [s \in AllSources |-> Absent]
  /\ calls = [c \in Callers |-> IdleCall]
  /\ ev = NoEvent
  /\ hist = [s \in AllSources |-> NoHist]
  /\ batch = NoBatch
  /\ results = [c \in Callers |-> None]
  /\ snapshot = <<>>
  /\ args \in ArgsChoices
  /\ ret = None
  /\ IdleC

NextEngine ==
  \/ CallWeightedScore
  \/ CallRunEngine

SpecEngine == InitEngine /\ [][NextEngine]_vars

\* ---------------------------------------------------- polymarket/client.py
MaxLevels == 3

OrderBookLevel(price, size) == [price |-> price, size |-> size]

\* sorted(levels, key=price): a stable insertion of each level in turn;
\* reverse=True keeps the order of equal keys as well.
RECURSIVE insert_sorted(_, _, _)
insert_sorted(sorted_levels, lv, reverse) ==
  IF sorted_levels = <<>> THEN <<lv>>
  ELSE LET last == sorted_levels[Len(sorted_levels)]
           after == IF reverse THEN RLe(lv.price, last.price)
                    ELSE RLe(last.price, lv.price)
       IN  IF after THEN Append(sorted_levels, lv)
           ELSE Append(insert_sorted(SubSeq(sorted_levels, 1, Len(sorted_levels) - 1),
                                     lv, reverse), last)

RECURSIVE sorted(_, _, _)
sorted(levels, reverse, i) ==
  IF i = 0 THEN <<>>
  ELSE insert_sorted(sorted(levels, reverse, i - 1), levels[i], reverse)

OrderBook(bids, asks, best_bid, best_ask) ==
  [bids |-> bids, asks |-> asks, best_bid |-> best_bid, best_ask |-> best_ask]

\* parse_order_book(data): bids sorted descending, asks ascending, the best
\* price of a side is the price of its first level.
parse_order_book(data) ==
  LET bids == sorted(data.bids, TRUE, Len(data.bids))
      asks == sorted(data.asks, FALSE, Len(data.asks))
  IN  OrderBook(bids, asks,
                IF bids = <<>> THEN None ELSE Some(bids[1].price),
                IF asks = <<>> THEN None ELSE Some(asks[1].price))

\* ----------------------------------------------------- polymarket/depth.py
\* The loop of max_safe_size_usd from level i on, with the running totals.
RECURSIVE walk_levels(_, _, _, _, _, _)
walk_levels(levels, best, side, i, cumulative_shares, cumulative_usd) ==
  IF i > Len(levels) THEN cumulative_usd
  ELSE LET price == levels[i].price
           size == levels[i].size
           new_shares == RAdd(cumulative_shares, size)
           new_usd == RAdd(cumulative_usd, RMul(price, size))
           avg_price == IF new_shares.n > 0 THEN RDiv(new_usd, new_shares) ELSE price
           slippage == IF side = "ask" THEN RDiv(RSub(avg_price, best), best)
                       ELSE RDiv(RSub(best, avg_price), best)
       IN  IF RLt(settings.slippage_limit, slippage) THEN cumulative_usd
           ELSE walk_levels(levels, best, side, i + 1, new_shares, new_usd)

\* Variant: the walk never stops, the whole side is counted.
max_safe_size_usd_whole_side(book, side) ==
  LET levels == IF side = "ask" THEN book.asks ELSE book.bids
      best == IF side = "ask" THEN book.best_ask ELSE book.best_bid
      RECURSIVE cost(_)
      cost(i) == IF i = 0 THEN R(0, 1)
                 ELSE RAdd(cost(i - 1), RMul(levels[i].price, levels[i].size))
  IN  IF levels = <<>> \/ IsNone(best) \/ Val(best).n <= 0 THEN R(0, 1)
      ELSE round(cost(Len(levels)), 2)

max_safe_size_usd(book, side) ==
  LET levels == IF side = "ask" THEN book.asks ELSE book.bids
      best == IF side = "ask" THEN book.best_ask ELSE book.best_bid
  IN  IF levels = <<>> \/ IsNone(best) \/ Val(best).n <= 0 THEN R(0, 1)
      ELSE round(walk_levels(levels, Val(best), side, 1, R(0, 1), R(0, 1)), 2)

\* ------------------------------------------- the sizing calls under analysis
\* Composite scores handed to the mapper: elevenths from below -2 to above 2.
ScoreGrid == {R(k, 11) : k \in (0 - 30)..30}

\* Probabilities and prices on the four-decimal grid model_p and the order
\* book prices live on; the threshold 0.05 is met exactly, missed by one
\* tick and passed by one tick.
EdgeModelPs == {R(15, 100), R(1, 2), R(5159, 10000), R(85, 100)}
EdgeAsks == {R(45, 100), R(4501, 10000), R(4499, 10000), R(1, 2), R(60, 100)}
EdgeBids == {None, Some(R(40, 100)), Some(R(5499, 10000)), Some(R(55, 100)), Some(R(60, 100))}

KellyModelPs == {R(0, 1), R(3, 10), R(1, 2), R(55, 100), R(7, 10), R(1, 1)}
KellyPrices == {R(0 - 1, 10), R(0, 1), R(1, 100), R(3, 10), R(1, 2), R(55, 100), R(99, 100), R(1, 1), R(11, 10)}

\* Bankrolls and caps as the settings keyboard stores them (whole dollars,
\* Kelly 25/50/100 %), liquidity-safe sizes as max_safe_size_usd rounds them.
SizeModelPs == {R(1, 2), R(5159, 10000), R(6, 10)}
SizePrices == {R(0, 1), R(45, 100), R(1, 2)}
SizeBankrolls == {R(500, 1), R(1000, 1), R(2000, 1)}
SizeMaxSafe == {R(0, 1), R(1234, 100), R(50, 1), R(500, 1)}
SizeMaxBets == {None, Some(R(10, 1)), Some(R(200, 1))}
SizeKellyOverrides == {None, Some(R(1, 2)), Some(R(1, 1))}

\* Raw book levels of a CLOB response, in any order: prices a tick, 1 %,
\* 2 % and 20 % apart, a price of 0, small, large and empty sizes.
RawLevels ==
  {OrderBookLevel(R(0, 1), R(7, 1)),
   OrderBookLevel(R(50, 100), R(0, 1)),
   OrderBookLevel(R(50, 100), R(100, 1)),
   OrderBookLevel(R(502, 1000), R(7, 1)),
   OrderBookLevel(R(51, 100), R(7, 1)),
   OrderBookLevel(R(51, 100), R(100, 1)),
   OrderBookLevel(R(60, 100), R(7, 1)),
   OrderBookLevel(R(60, 100), R(100, 1))}
RawSides == UNION {[1..n -> RawLevels] : n \in 0..MaxLevels}

SizingArgs ==
  [fn : {"score_to_model_p"}, score : ScoreGrid]
  \cup [fn : {"direction_from_edge"}, model_p : EdgeModelPs,
        market_p_yes : EdgeAsks, market_bid : EdgeBids]
  \cup [fn : {"kelly_fraction"}, model_p : KellyModelPs, price_yes : KellyPrices]
  \cup [fn : {"recommended_size_usd"}, model_p : SizeModelPs,
        market_p_yes : SizePrices, bankroll_usd : SizeBankrolls,
        max_safe_size_usd : SizeMaxSafe, max_bet_usd : SizeMaxBets,
        kelly_fraction_override : SizeKellyOverrides]
  \cup [fn : {"max_safe_size_usd"}, levels : RawSides, side : {"ask", "bid"}]

CallScoreToModelP ==
  /\ args # None
  /\ args.fn = "score_to_model_p"
  /\ ret = None
  /\ ret' = Returned_("score_to_model_p", Ok(score_to_model_p(args.score)))
  /\ UNCHANGED <<args, varsA, varsC>>

CallDirectionFromEdge ==
  /\ args # None
  /\ args.fn = "direction_from_edge"
  /\ ret = None
  /\ ret' = Returned_("direction_from_edge",
                      Ok(direction_from_edge(args.model_p, args.market_p_yes,
                                             args.market_bid)))
  /\ UNCHANGED <<args, varsA, varsC>>

CallKellyFraction ==
  /\ args # None
  /\ args.fn = "kelly_fraction"
  /\ ret = None
  /\ ret' = Returned_("kelly_fraction",
                      Ok(kelly_fraction(args.model_p, args.price_yes)))
  /\ UNCHANGED <<args, varsA, varsC>>

CallRecommendedSizeUsd ==
  /\ args # None
  /\ args.fn = "recommended_size_usd"
  /\ ret = None
  /\ ret' = Returned_("recommended_size_usd",
                      Ok(recommended_size_usd(args.model_p, args.market_p_yes,
                                              args.bankroll_usd, args.max_safe_size_usd,
                                              args.max_bet_usd,
                                              args.kelly_fraction_override)))
  /\ UNCHANGED <<args, varsA, varsC>>

\* The book of a token is parsed from the response and walked on one side.
CallMaxSafeSizeUsd ==
  /\ args # None
  /\ args.fn = "max_safe_size_usd"
  /\ ret = None
  /\ ret' = LET book == parse_order_book([bids |-> args.levels, asks |-> args.levels])
            IN  Returned_("max_safe_size_usd", Ok(max_safe_size_usd(book, args.side)))
  /\ UNCHANGED <<args, varsA, varsC>>

\* The default configuration.
DefaultSettings ==
  {s \in EngineSettingsChoices :
     /\ IsNone(s.weight_etf_flows)
     /\ IsNone(s.weight_coinbase_premium)
     /\ ~s.fetch_coinbase_premium}

InitSizing ==
  /\ settings \in DefaultSettings
  /\ now = 1
  /\ circuits = [s \in AllSources |-> Absent]
  /\ calls = [c \in Callers |-> IdleCall]
  /\ ev = NoEvent
  /\ hist = [s \in AllSources |-> NoHist]
  /\ batch = NoBatch
  /\ results = [c \in Callers |-> None]
  /\ snapshot = <<>>
  /\ args \in SizingArgs
  /\ ret = None
  /\ IdleC

NextSizing ==
  \/ CallScoreToModelP
  \/ CallDirectionFromEdge
  \/ CallKellyFraction
  \/ CallRecommendedSizeUsd
  \/ CallMaxSafeSizeUsd

SpecSizing == InitSizing /\ [][NextSizing]_vars

\* ------------------------------------------------- signal/engine_15m.py
RSI_PERIOD == 14
CANDLE_WINDOW_MINUTES == 15

\* The one-minute candles are carried by their number and by the readings the
\* TA helpers take from them (engine_15m.py:334-362): the scoring below only
\* compares those readings with fixed levels, so each reading is a number on
\* either side of its level, or None where the helper has too few bars.
Indicators(last_price, vwap_now, vwap_slope, rsi, rsi_slope, macd_hist, ha_color, ha_count, failed_vwap_reclaim) ==
  [last_price |-> last_price, vwap_now |-> vwap_now, vwap_slope |-> vwap_slope,
   rsi |-> rsi, rsi_slope |-> rsi_slope, macd_hist |-> macd_hist,
   ha_color |-> ha_color, ha_count |-> ha_count,
   failed_vwap_reclaim |-> failed_vwap_reclaim]

_score_direction(ta) ==
  LET up1 == IF ~IsNone(ta.vwap_now) /\ ta.last_price > Val(ta.vwap_now) THEN 2 ELSE 0
      down1 == IF ~IsNone(ta.vwap_now) /\ ta.last_price < Val(ta.vwap_now) THEN 2 ELSE 0
      up2 == IF ~IsNone(ta.vwap_slope) /\ Val(ta.vwap_slope) > 0 THEN 2 ELSE 0
      down2 == IF ~IsNone(ta.vwap_slope) /\ Val(ta.vwap_slope) < 0 THEN 2 ELSE 0
      both == ~IsNone(ta.rsi) /\ ~IsNone(ta.rsi_slope)
      up3 == IF both /\ Val(ta.rsi) > 55 /\ Val(ta.rsi_slope) > 0 THEN 2 ELSE 0
      down3 == IF both /\ Val(ta.rsi) < 45 /\ Val(ta.rsi_slope) < 0 THEN 2 ELSE 0
      up4 == IF ~IsNone(ta.macd_hist) /\ Val(ta.macd_hist) > 0 THEN 1 ELSE 0
      down4 == IF ~IsNone(ta.macd_hist) /\ Val(ta.macd_hist) < 0 THEN 1 ELSE 0
      up5 == IF ta.ha_color = Some("green") /\ ta.ha_count >= 2 THEN 1 ELSE 0
      down5 == IF ta.ha_color = Some("red") /\ ta.ha_count >= 2 THEN 1 ELSE 0
      down6 == IF ta.failed_vwap_reclaim THEN 3 ELSE 0
      up == 1 + up1 + up2 + up3 + up4 + up5
      down == 1 + down1 + down2 + down3 + down4 + down5 + down6
  IN  R(up, up + down)

\* Variant: the raw probability is not decayed with the time left.
_apply_time_awareness_no_decay(raw_up, remaining_minutes, window_minutes) ==
  LET adjusted_up == RMax(R(0, 1), RMin(R(1, 1), raw_up))
  IN  <<adjusted_up, RSub(R(1, 1), adjusted_up)>>

_apply_time_awareness(raw_up, remaining_minutes, window_minutes) ==
  LET time_decay ==
        IF IsNone(remaining_minutes) \/ Val(remaining_minutes).n < 0 THEN R(0, 1)
        ELSE RMin(R(1, 1), RMax(R(0, 1), RDiv(Val(remaining_minutes), window_minutes)))
      adjusted_up ==
        RMax(R(0, 1),
             RMin(R(1, 1), RAdd(R(1, 2), RMul(RSub(raw_up, R(1, 2)), time_decay))))
  IN  <<adjusted_up, RSub(R(1, 1), adjusted_up)>>

_compute_edge_up_down(model_up, model_down, market_up_norm, market_down_norm) ==
  IF IsNone(market_up_norm) \/ IsNone(market_down_norm) THEN <<None, None>>
  ELSE <<Some(round(RSub(model_up, Val(market_up_norm)), 4)),
         Some(round(RSub(model_down, Val(market_down_norm)), 4))>>

_decide(remaining_minutes, edge_up, edge_down, model_up, model_down) ==
  LET rem == IF IsNone(remaining_minutes) THEN R(10, 1) ELSE Val(remaining_minutes)
      policy ==
        IF RLt(R(10, 1), rem)
          THEN [phase |-> "EARLY", threshold |-> R(5, 100), min_prob |-> R(55, 100)]
        ELSE IF RLt(R(5, 1), rem)
          THEN [phase |-> "MID", threshold |-> R(10, 100), min_prob |-> R(60, 100)]
        ELSE [phase |-> "LATE", threshold |-> R(20, 100), min_prob |-> R(65, 100)]
  IN  IF IsNone(edge_up) \/ IsNone(edge_down) THEN <<"NO_TRADE", policy.phase>>
      ELSE LET best_side == IF RLt(Val(edge_down), Val(edge_up)) THEN "BUY_UP"
                            ELSE "BUY_DOWN"
               best_edge == IF best_side = "BUY_UP" THEN Val(edge_up) ELSE Val(edge_down)
               best_model == IF best_side = "BUY_UP" THEN model_up ELSE model_down
           IN  IF RLt(best_edge, policy.threshold) THEN <<"NO_TRADE", policy.phase>>
               ELSE IF RLt(best_model, policy.min_prob) THEN <<"NO_TRADE", policy.phase>>
               ELSE <<best_side, policy.phase>>

Signal15mResult(direction, model_up, model_down, market_up_norm, market_down_norm, edge_up, edge_down, recommended_usd, phase, remaining_minutes, reasoning, liquidity_warning) ==
  [direction |-> direction, model_up |-> model_up, model_down |-> model_down,
   market_up_norm |-> market_up_norm, market_down_norm |-> market_down_norm,
   edge_up |-> edge_up, edge_down |-> edge_down,
   recommended_usd |-> recommended_usd, phase |-> phase,
   remaining_minutes |-> remaining_minutes, reasoning |-> reasoning,
   liquidity_warning |-> liquidity_warning]

\* The early return of run_engine_15m on a short candle history.
_insufficient_klines(a) ==
  Signal15mResult("NO_TRADE", R(1, 2), R(1, 2), a.quote.market_up_norm,
                  a.quote.market_down_norm, None, None, R(0, 1), "EARLY",
                  a.remaining_minutes,
                  <<[factor |-> "klines", detail |-> "Insufficient 1m klines"]>>,
                  None)

\* f"Thin liquidity (<side>). Max safe: ${max_safe:.0f}"
ThinLiquidity(side, max_safe) ==
  Some([text |-> "Thin liquidity", side |-> side, max_safe |-> round(max_safe, 0)])

\* run_engine_15m past the history check: TA readings -> raw_up -> time
\* decay -> edges -> decision -> size.
_signal_15m(a) ==
  LET raw_up == _score_direction(a.candles_1m.ta)
      model == _apply_time_awareness(raw_up, a.remaining_minutes,
                                     R(CANDLE_WINDOW_MINUTES, 1))
      model_up == model[1]
      model_down == model[2]
      edges == _compute_edge_up_down(model_up, model_down,
                                     Some(a.quote.market_up_norm),
                                     Some(a.quote.market_down_norm))
      dp == _decide(a.remaining_minutes, edges[1], edges[2], model_up, model_down)
      direction == dp[1]
      phase == dp[2]
      price_no == RMax(R(1, 100), RMin(R(99, 100), a.quote.market_down_norm))
      recommended_usd ==
        IF direction = "BUY_UP"
          THEN recommended_size_usd(model_up, a.quote.market_up_norm, a.bankroll_usd,
                                    a.quote.max_safe_up_usd, None, None)
        ELSE IF direction = "BUY_DOWN"
          THEN recommended_size_usd(model_down, price_no, a.bankroll_usd,
                                    a.quote.max_safe_down_usd, None, None)
        ELSE R(0, 1)
      thin(max_safe) == \/ RLt(max_safe, R(100, 1))
                        \/ RLe(RMul(max_safe, R(99, 100)), recommended_usd)
      liquidity_warning ==
        IF direction = "BUY_UP" /\ thin(a.quote.max_safe_up_usd)
          THEN ThinLiquidity("Up", a.quote.max_safe_up_usd)
        ELSE IF direction = "BUY_DOWN" /\ thin(a.quote.max_safe_down_usd)
          THEN ThinLiquidity("Down", a.quote.max_safe_down_usd)
        ELSE None
      reasoning ==
        <<[factor |-> "raw_up", value |-> round(raw_up, 3)],
          [factor |-> "model_up", value |-> round(model_up, 3)]>>
        \o (IF IsNone(edges[1]) THEN <<>>
            ELSE <<[factor |-> "edge_up", value |-> Val(edges[1])]>>)
        \o (IF IsNone(edges[2]) THEN <<>>
            ELSE <<[factor |-> "edge_down", value |-> Val(edges[2])]>>)
        \o <<[factor |-> "phase", phase |-> phase]>>
  IN  Signal15mResult(direction, model_up, model_down, a.quote.market_up_norm,
                      a.quote.market_down_norm, edges[1], edges[2],
                      recommended_usd, phase, a.remaining_minutes, reasoning,
                      liquidity_warning)

\* Variant: the candle history is not checked.
run_engine_15m_any_history(a) == Ok(_signal_15m(a))

\* run_engine_15m(quote, remaining_minutes, bankroll_usd, candles_1m), with
\* a = the arguments.
run_engine_15m(a) ==
  IF a.candles_1m.len < RSI_PERIOD + 10 THEN Ok(_insufficient_klines(a))
  ELSE Ok(_signal_15m(a))

\* ------------------------------------------------ polymarket/selection_15m.py
UpDownQuote(up_buy_price, down_buy_price, market_up_norm, market_down_norm, max_safe_up_usd, max_safe_down_usd) ==
  [up_buy_price |-> up_buy_price, down_buy_price |-> down_buy_price,
   market_up_norm |-> market_up_norm, market_down_norm |-> market_down_norm,
   max_safe_up_usd |-> max_safe_up_usd, max_safe_down_usd |-> max_safe_down_usd]

\* build_updown_quote from the two CLOB buy prices (None when the price
\* request gave nothing) and the two liquidity-safe sizes.
build_updown_quote(up_price_raw, down_price_raw, max_safe_up, max_safe_down) ==
  LET up_price == IfSet(up_price_raw, R(0, 1))
      down_price == IfSet(down_price_raw, R(0, 1))
      total == RAdd(up_price, down_price)
  IN  IF total.n <= 0
        THEN UpDownQuote(up_price, down_price, R(1, 2), R(1, 2), max_safe_up, max_safe_down)
        ELSE UpDownQuote(up_price, down_price, RDiv(up_price, total),
                         RDiv(down_price, total), max_safe_up, max_safe_down)

\* ----------------------------------------- the intraday calls under analysis
UpPrices == {None, Some(R(10, 100)), Some(R(30, 100)), Some(R(50, 100)), Some(R(72, 100))}
DownPrices == {None, Some(R(30, 100)), Some(R(50, 100)), Some(R(92, 100))}
UpDownQuotes ==
  {build_updown_quote(u, d, m, m) :
     u \in UpPrices, d \in DownPrices, m \in {R(50, 1), R(500, 1)}}

\* Minutes left in the window: unknown, expired, and either side of the two
\* phase borders.
RemainingChoices ==
  {None, Some(R(0, 1)), Some(R(3, 1)), Some(R(5, 1)), Some(R(11, 2)),
   Some(R(10, 1)), Some(R(21, 2)), Some(R(15, 1))}

\* TA readings: all bullish, all bearish with a failed VWAP reclaim, price
\* above VWAP only, and nothing readable.
TAChoices ==
  {Indicators(101, Some(100), Some(1), Some(60), Some(1), Some(1), Some("green"), 3, FALSE),
   Indicators(99, Some(100), Some(0 - 1), Some(40), Some(0 - 1), Some(0 - 1), Some("red"), 2, TRUE),
   Indicators(101, Some(100), Some(0), Some(50), Some(0), Some(0), Some("green"), 1, FALSE),
   Indicators(100, None, None, None, None, None, None, 0, FALSE)}

\* Candle histories: empty, one short of RSI_PERIOD + 10, just enough, and
\* the 240 bars the caller asks Binance for.
CandleCounts == {0, RSI_PERIOD + 9, RSI_PERIOD + 10, 240}
Candles == [len : CandleCounts, ta : TAChoices]

RawUps == {R(0, 1), R(1, 13), R(1, 2), R(7, 10), R(9, 10), R(1, 1)}
DecideModelUps == {R(1, 2), R(58, 100), R(62, 100), R(70, 100), R(30, 100)}
DecideMarketUps == {None, Some(R(30, 100)), Some(R(45, 100)), Some(R(1, 2)), Some(R(60, 100))}

\* run_engine on a snapshot whose sources all carry the same score.
DailyArgs ==
  {a \in ArgsChoices :
     /\ IsNone(a.weights)
     /\ IsNone(a.bankroll_usd)
     /\ \A i \in 1..Len(a.results) :
          a.results[i].normalized_score = a.results[1].normalized_score}

IntradayArgs ==
  [fn : {"run_engine_15m"}, quote : UpDownQuotes,
   remaining_minutes : RemainingChoices,
   bankroll_usd : {R(1000, 1), R(2000, 1)}, candles_1m : Candles]
  \cup [fn : {"_apply_time_awareness"}, raw_up : RawUps,
        remaining_minutes : RemainingChoices]
  \cup [fn : {"_decide"}, remaining_minutes : RemainingChoices,
        model_up : DecideModelUps, market_up_norm : DecideMarketUps]
  \cup DailyArgs

CallApplyTimeAwareness ==
  /\ args # None
  /\ args.fn = "_apply_time_awareness"
  /\ ret = None
  /\ ret' = Returned_("_apply_time_awareness",
                      Ok(_apply_time_awareness(args.raw_up, args.remaining_minutes,
                                               R(CANDLE_WINDOW_MINUTES, 1))))
  /\ UNCHANGED <<args, varsA, varsC>>

\* _decide on the edges _compute_edge_up_down gives for a model probability
\* and a normalized market price (no edges without a market price).
CallDecide ==
  /\ args # None
  /\ args.fn = "_decide"
  /\ ret = None
  /\ ret' = LET model_down == RSub(R(1, 1), args.model_up)
                market_down == IF IsNone(args.market_up_norm) THEN None
                               ELSE Some(RSub(R(1, 1), Val(args.market_up_norm)))
                edges == _compute_edge_up_down(args.model_up, model_down,
                                               args.market_up_norm, market_down)
            IN  Returned_("_decide",
                          Ok(_decide(args.remaining_minutes, edges[1], edges[2],
                                     args.model_up, model_down)))
  /\ UNCHANGED <<args, varsA, varsC>>

CallRunEngine15m ==
  /\ args # None
  /\ args.fn = "run_engine_15m"
  /\ ret = None
  /\ ret' = Returned_("run_engine_15m", run_engine_15m(args))
  /\ UNCHANGED <<args, varsA, varsC>>

InitIntraday ==
  /\ settings \in DefaultSettings
  /\ now = 1
  /\ circuits = [s \in AllSources |-> Absent]
  /\ calls = [c \in Callers |-> IdleCall]
  /\ ev = NoEvent
  /\ hist = [s \in AllSources |-> NoHist]
  /\ batch = NoBatch
  /\ results = [c \in Callers |-> None]
  /\ snapshot = <<>>
  /\ args \in IntradayArgs
  /\ ret = None
  /\ IdleC

NextIntraday ==
  \/ CallApplyTimeAwareness
  \/ CallDecide
  \/ CallRunEngine15m
  \/ CallRunEngine

SpecIntraday == InitIntraday /\ [][NextIntraday]_vars

\* ------------------------------ fetchers by market (selection.py, registry.py)
\* A slug is the sequence of the pieces of its lower-cased text that the
\* patterns of selection.py look at ("bitcoin", "btc", "up", "down") and the
\* text between them; a missing slug is None.
\* re.compile(first + ".*up.*down", re.I).search(slug)
SearchUpDown(slug, first) ==
  \E i, j, k \in 1..Len(slug) :
    i < j /\ j < k /\ slug[i] = first /\ slug[j] = "up" /\ slug[k] = "down"

\* selection.py:34-37; the two "up\s*or\s*down" patterns match only text the
\* two ".*up.*down" patterns match as well.
_is_btc_up_down_hourly_slug(slug) ==
  IF IsNone(slug) \/ Val(slug) = <<>> THEN FALSE
  ELSE SearchUpDown(Val(slug), "bitcoin") \/ SearchUpDown(Val(slug), "btc")

is_btc_up_down_hourly_market(market) == _is_btc_up_down_hourly_slug(market.slug)

\* registry.py:48-64, the source ids of the fetchers in list order.
get_all_fetchers ==
  <<"etf_flows", "funding", "dxy", "fear_greed", "price_ma",
    "exchange_netflow", "macro">>
  \o (IF settings.fetch_coinbase_premium THEN <<"coinbase_premium">> ELSE <<>>)
  \o (IF settings.fetch_stablecoin_issuance THEN <<"stablecoin_issuance">> ELSE <<>>)

\* What gather collected for a fetcher list when fetch() of source s ends
\* as outcome[s] says: a score, a failure without score, or an exception.
Gathered(fetchers, outcome) ==
  [i \in 1..Len(fetchers) |->
     IF outcome[fetchers[i]] = "raise" THEN RaisedToGather("boom")
     ELSE ReturnedToGather(SnapshotEntry(fetchers[i], outcome[fetchers[i]]))]

\* registry.py:109-115 (the timestamp is left out).
run_all_fetchers(outcome) ==
  _run_fetchers_async(get_all_fetchers, Gathered(get_all_fetchers, outcome))

\* Variant: the hourly branch returns the default weight table.
run_fetchers_for_market_default_weights(market, outcome) ==
  IF is_btc_up_down_hourly_market(market)
    THEN LET fetchers == get_all_fetchers \o <<"price_1h_momentum">> IN
         [results |-> _run_fetchers_async(fetchers, Gathered(fetchers, outcome)),
          weights |-> get_weights]
    ELSE [results |-> run_all_fetchers(outcome), weights |-> get_weights]

\* registry.py:88-106: (snapshot.results, weights).
run_fetchers_for_market(market, outcome) ==
  IF is_btc_up_down_hourly_market(market)
    THEN LET fetchers == get_all_fetchers \o <<"price_1h_momentum">> IN
         [results |-> _run_fetchers_async(fetchers, Gathered(fetchers, outcome)),
          weights |-> HOURLY_WEIGHTS]
    ELSE [results |-> run_all_fetchers(outcome), weights |-> get_weights]

\* The markets handed in: no slug, an empty slug, hourly Up/Down slugs
\* ("bitcoin-up-or-down-january-31-2pm-et", "btc-updown-..."), a daily slug,
\* a slug with the words out of order and another asset's Up/Down market.
MarketSlugs ==
  {None, Some(<<>>),
   Some(<<"bitcoin", "-", "up", "-or-", "down", "-january-31-2pm-et">>),
   Some(<<"btc", "-", "up", "down", "-1h">>),
   Some(<<"bitcoin", "-above-96500-on-january-30">>),
   Some(<<"down", "-", "bitcoin", "-", "up">>),
   Some(<<"ethereum-", "up", "-or-", "down">>)}
Markets == [slug : MarketSlugs]

\* How each fetch ends: the sources the hourly table silences, funding and
\* the momentum source vary; fear_greed is scored, price_ma fails without a
\* score, exchange_netflow lets an exception escape.
VariedSources == {"etf_flows", "dxy", "macro", "funding", "price_1h_momentum"}
FetchOutcomes ==
  {[s \in VariedSources \cup
          {"fear_greed", "price_ma", "exchange_netflow", "coinbase_premium",
           "stablecoin_issuance"} |->
      IF s \in VariedSources THEN f[s]
      ELSE IF s = "fear_greed" THEN Some(20)
      ELSE IF s = "exchange_netflow" THEN "raise"
      ELSE None] :
     f \in [VariedSources -> ScoreChoices]}

MarketArgs ==
  [fn : {"run_fetchers_for_market"}, market : Markets, outcome : FetchOutcomes]

\* A caller awaits run_fetchers_for_market(market).
CallRunFetchersForMarket ==
  /\ args # None
  /\ args.fn = "run_fetchers_for_market"
  /\ ret = None
  /\ ret' = Returned_("run_fetchers_for_market",
                      Ok(run_fetchers_for_market(args.market, args.outcome)))
  /\ UNCHANGED <<args, varsA, varsC>>

MarketSettings ==
  {s \in EngineSettingsChoices : IsNone(s.weight_coinbase_premium)}

InitMarket ==
  /\ settings \in MarketSettings
  /\ now = 1
  /\ circuits = [s \in AllSources |-> Absent]
  /\ calls = [c \in Callers |-> IdleCall]
  /\ ev = NoEvent
  /\ hist = [s \in AllSources |-> NoHist]
  /\ batch = NoBatch
  /\ results = [c \in Callers |-> None]
  /\ snapshot = <<>>
  /\ args \in MarketArgs
  /\ ret = None
  /\ IdleC

NextMarket == CallRunFetchersForMarket

SpecMarket == InitMarket /\ [][NextMarket]_vars

\* ===================================== Part C: rate limiter and database
\* What the coroutines of this part leave alone.
varsIdle == <<settings, circuits, calls, hist, batch, results, snapshot, args, ret>>

IdleAB ==
  /\ settings \in DefaultSettings
  /\ circuits = [s \in AllSources |-> Absent]
  /\ calls = [c \in Callers |-> IdleCall]
  /\ hist = [s \in AllSources |-> NoHist]
  /\ batch = NoBatch
  /\ results = [c \in Callers |-> None]
  /\ snapshot = <<>>
  /\ args = None
  /\ ret = None

\* ------------------------------------------------- telegram/rate_limit.py
\* Time is counted in quarter seconds: MIN_INTERVAL_SECONDS = 0.5.
MIN_INTERVAL_SECONDS == 2
MaxMonotonic == 5
Chats == {100, 101}
RateTasks == 1..3

NoLock == [present |-> FALSE, locked |-> FALSE, holder |-> 0, waiters |-> <<>>]
IdleTask == [pc |-> "idle", chat_id |-> 0, wake_at |-> 0]
RateEvent(type, t, chat_id) == [type |-> type, t |-> t, chat_id |-> chat_id, at |-> now]

\* _last_send.get(chat_id, 0.0)
LastSend(chat_id) == IfSet(_last_send[chat_id], 0)

\* Variant: the coroutine sleeps one tick less than what is missing.
sleep_for_short(elapsed) ==
  IF elapsed < MIN_INTERVAL_SECONDS
    THEN IF MIN_INTERVAL_SECONDS - elapsed - 1 > 0
           THEN Some(MIN_INTERVAL_SECONDS - elapsed - 1) ELSE None
    ELSE None

\* rate_limit.py:28-29: the delay handed to asyncio.sleep, None when the
\* coroutine does not sleep.
sleep_for(elapsed) ==
  IF elapsed < MIN_INTERVAL_SECONDS THEN Some(MIN_INTERVAL_SECONDS - elapsed)
  ELSE None

\* rate_limit.py:30 and the end of `async with lock`: the send time is
\* recorded, the lock released and the coroutine returns.
Leave(t, chat_id, lk) ==
  /\ _last_send' = [_last_send EXCEPT ![chat_id] = Some(now)]
  /\ _locks' = [_locks EXCEPT ![chat_id] = [lk EXCEPT !.locked = FALSE, !.holder = 0]]
  /\ returned_at' = [returned_at EXCEPT ![chat_id] =
                       [prev |-> @.last, last |-> Some(now)]]
  /\ tasks' = [tasks EXCEPT ![t] = IdleTask]
  /\ ev' = RateEvent("return", t, chat_id)

\* rate_limit.py:25-30 once the lock is taken, up to the sleep or the return;
\* lk is the lock as it is before t takes it.
Enter(t, chat_id, lk) ==
  LET elapsed == now - LastSend(chat_id)
      d == sleep_for(elapsed)
  IN  IF IsNone(d)
        THEN Leave(t, chat_id, lk)
        ELSE /\ _locks' = [_locks EXCEPT ![chat_id] =
                             [lk EXCEPT !.locked = TRUE, !.holder = t]]
             /\ tasks' = [tasks EXCEPT ![t] = [pc |-> "sleeping", chat_id |-> chat_id,
                                               wake_at |-> now + Val(d)]]
             /\ ev' = RateEvent("sleep", t, chat_id)
             /\ UNCHANGED <<_last_send, returned_at>>

\* wait_if_needed(chat_id) is called: _get_lock creates the lock of the chat
\* when missing; a free lock nobody waits for is taken at once, else the
\* coroutine queues behind the lock's waiters.
CallWaitIfNeeded(t, chat_id) ==
  LET lk == [_locks[chat_id] EXCEPT !.present = TRUE] IN
  /\ tasks[t].pc = "idle"
  /\ IF ~lk.locked /\ lk.waiters = <<>>
       THEN Enter(t, chat_id, lk)
       ELSE /\ _locks' = [_locks EXCEPT ![chat_id] =
                            [lk EXCEPT !.waiters = Append(@, t)]]
            /\ tasks' = [tasks EXCEPT ![t] = [pc |-> "waiting", chat_id |-> chat_id,
                                              wake_at |-> 0]]
            /\ ev' = RateEvent("queued", t, chat_id)
            /\ UNCHANGED <<_last_send, returned_at>>
  /\ UNCHANGED <<now, signal_runs, varsIdle>>

\* The lock was released: its first waiter takes it and runs on.
Acquire(t) ==
  LET chat_id == tasks[t].chat_id
      lk == _locks[chat_id]
  IN  /\ tasks[t].pc = "waiting"
      /\ ~lk.locked
      /\ lk.waiters # <<>>
      /\ Head(lk.waiters) = t
      /\ Enter(t, chat_id, [lk EXCEPT !.waiters = Tail(@)])
      /\ UNCHANGED <<now, signal_runs, varsIdle>>

\* asyncio.sleep is over, not before the delay has passed.
Wake(t) ==
  /\ tasks[t].pc = "sleeping"
  /\ now >= tasks[t].wake_at
  /\ Leave(t, tasks[t].chat_id, _locks[tasks[t].chat_id])
  /\ UNCHANGED <<now, signal_runs, varsIdle>>

\* time.monotonic() advances.
TickRate ==
  /\ now < MaxMonotonic
  /\ now' = now + 1
  /\ ev' = [type |-> "tick", t |-> 0, chat_id |-> 0, at |-> now + 1]
  /\ UNCHANGED <<varsC, varsIdle>>

InitRate ==
  /\ IdleAB
  /\ now \in 0..MIN_INTERVAL_SECONDS
  /\ ev = [type |-> "init", t |-> 0, chat_id |-> 0, at |-> now]
  /\ _locks = [c \in Chats |-> NoLock]
  /\ _last_send = [c \in Chats |-> None]
  /\ returned_at = [c \in Chats |-> [prev |-> None, last |-> None]]
  /\ signal_runs = <<>>
  /\ tasks = [t \in RateTasks |-> IdleTask]

NextRate ==
  \/ \E t \in RateTasks, chat_id \in Chats : CallWaitIfNeeded(t, chat_id)
  \/ \E t \in RateTasks : Acquire(t)
  \/ \E t \in RateTasks : Wake(t)
  \/ TickRate

SpecRate == InitRate /\ [][NextRate]_vars

\* ----------------- daily signal pipeline (commands.py, db/signal_runs.py)
\* In this part `now` is the UTC date, as a day number.
MaxDay == 2
MaxRuns == 2
DailyTasks == 1..2
ConditionIds == {"0xaaa", "0xbbb"}

\* A row of signal_runs.
SignalRun(run_at, market_condition_id, status, direction) ==
  [run_at |-> run_at, market_condition_id |-> market_condition_id,
   status |-> status, direction |-> direction,
   outcome |-> None, actual_result |-> None, resolved_at |-> None]

IdleBroadcast == [pc |-> "idle", market |-> None, run_id |-> None]
DailyEvent(type, t, market, run_id) ==
  [type |-> type, t |-> t, market |-> market, run_id |-> run_id]

\* signal_runs.py:42-66: the id of the latest completed run of the market on
\* the UTC date, None without one.
get_existing_run_for_market_today(market_condition_id, run_date) ==
  LET ids == {i \in 1..Len(signal_runs) :
                /\ signal_runs[i].market_condition_id = market_condition_id
                /\ signal_runs[i].run_at = run_date
                /\ signal_runs[i].status = "ok"}
  IN  IF ids = {} THEN None
      ELSE Some(CHOOSE i \in ids : \A j \in ids : j <= i)

\* commands.py:718-726: the invocation starts; without allowed users or
\* without a market it returns at once, else it goes on with the market that
\* select_btc_market handed back.
StartBroadcast(t, no_users, market) ==
  /\ tasks[t].pc = "idle"
  /\ IF no_users
       THEN /\ ev' = DailyEvent("no_allowed_users", t, None, None)
            /\ UNCHANGED tasks
     ELSE IF IsNone(market)
       THEN /\ ev' = DailyEvent("no_market", t, None, None)
            /\ UNCHANGED tasks
     ELSE /\ ev' = DailyEvent("selected", t, market, None)
          /\ tasks' = [tasks EXCEPT ![t] = [IdleBroadcast EXCEPT !.pc = "selected",
                                                                 !.market = market]]
  /\ UNCHANGED <<now, _locks, _last_send, returned_at, signal_runs, varsIdle>>

\* commands.py:728-730: the lookup of today's run.
CheckExisting(t) ==
  LET existing_run_id ==
        get_existing_run_for_market_today(Val(tasks[t].market), now)
  IN  /\ tasks[t].pc = "selected"
      /\ tasks' = [tasks EXCEPT ![t].pc = IF IsNone(existing_run_id) THEN "creating"
                                          ELSE "reusing",
                                ![t].run_id = existing_run_id]
      /\ ev' = DailyEvent("checked", t, tasks[t].market, existing_run_id)
      /\ UNCHANGED <<now, _locks, _last_send, returned_at, signal_runs, varsIdle>>

\* commands.py:730-757: the stored run is loaded, sent and the invocation
\* returns "reused" ("reused_run_unreadable" when the row is not readable).
ReuseRun(t) ==
  LET run_id == Val(tasks[t].run_id) IN
  /\ tasks[t].pc = "reusing"
  /\ ev' = DailyEvent(IF signal_runs[run_id].status = "ok" THEN "reused"
                      ELSE "reused_run_unreadable", t, tasks[t].market,
                      tasks[t].run_id)
  /\ tasks' = [tasks EXCEPT ![t] = IdleBroadcast]
  /\ UNCHANGED <<now, _locks, _last_send, returned_at, signal_runs, varsIdle>>

\* commands.py:759-762, signal_runs.py:101-123: create_signal_run inserts a
\* pending row dated now and returns its id.
CreateRun(t) ==
  /\ tasks[t].pc = "creating"
  /\ Len(signal_runs) < MaxRuns
  /\ signal_runs' = Append(signal_runs,
                           SignalRun(now, Val(tasks[t].market), "pending", "NO_TRADE"))
  /\ tasks' = [tasks EXCEPT ![t].pc = "running",
                            ![t].run_id = Some(Len(signal_runs) + 1)]
  /\ ev' = DailyEvent("created_run", t, tasks[t].market, Some(Len(signal_runs) + 1))
  /\ UNCHANGED <<now, _locks, _last_send, returned_at, varsIdle>>

\* commands.py:763-826: fetchers and engine have run;
\* update_signal_run_with_result stores the direction with status 'ok', the
\* message is sent and the invocation returns "created".
FinishRun(t, direction) ==
  LET run_id == Val(tasks[t].run_id) IN
  /\ tasks[t].pc = "running"
  /\ signal_runs' = [signal_runs EXCEPT ![run_id].status = "ok",
                                        ![run_id].direction = direction]
  /\ tasks' = [tasks EXCEPT ![t] = IdleBroadcast]
  /\ ev' = DailyEvent("created", t, tasks[t].market, tasks[t].run_id)
  /\ UNCHANGED <<now, _locks, _last_send, returned_at, varsIdle>>

\* An exception escapes between the insert and the update (a database
\* error in insert_snapshots or upsert_market_metadata): the row stays
\* pending and run_daily_signal answers 500.
FailRun(t) ==
  /\ tasks[t].pc = "running"
  /\ tasks' = [tasks EXCEPT ![t] = IdleBroadcast]
  /\ ev' = DailyEvent("error", t, tasks[t].market, tasks[t].run_id)
  /\ UNCHANGED <<now, _locks, _last_send, returned_at, signal_runs, varsIdle>>

\* Midnight UTC passes.
NextDay ==
  /\ now < MaxDay
  /\ now' = now + 1
  /\ ev' = DailyEvent("midnight", 0, None, None)
  /\ UNCHANGED <<varsC, varsIdle>>

InitDaily ==
  /\ IdleAB
  /\ now = 1
  /\ ev = DailyEvent("init", 0, None, None)
  /\ _locks = <<>>
  /\ _last_send = <<>>
  /\ returned_at = <<>>
  /\ signal_runs = <<>>
  /\ tasks = [t \in DailyTasks |-> IdleBroadcast]

NextDaily ==
  \/ \E t \in DailyTasks, no_users \in BOOLEAN :
       \E market \in {None} \cup {Some(m) : m \in ConditionIds} :
         StartBroadcast(t, no_users, market)
  \/ \E t \in DailyTasks : CheckExisting(t)
  \/ \E t \in DailyTasks : ReuseRun(t)
  \/ \E t \in DailyTasks : CreateRun(t)
  \/ \E t \in DailyTasks : \E direction \in {"YES", "NO_TRADE"} :
       FinishRun(t, direction)
  \/ \E t \in DailyTasks : FailRun(t)
  \/ NextDay

SpecDaily == InitDaily /\ [][NextDaily]_vars

\* --------------------------------------------------- outcomes/recorder.py
\* In this part `now` is datetime.now(timezone.utc), in days. Of the
\* dictionary run_eod_outcomes returns the model keeps the count `updated`;
\* the list `failed` is only reported.
OutcomeTasks == 1..2
\* The tasks that call record_run_outcome themselves; every task runs
\* run_eod_outcomes.
DirectCallers == {1}
OutcomeLabels == {"WIN", "SKIP", "INVALID"}
ActualResults == {None, Some("NO"), Some("MAYBE")}
\* The ids callers pass: a stored run and one that does not exist.
RunIds == {1, 3}

IdleRecorder ==
  [pc |-> "idle", kind |-> "", runs |-> <<>>, signal_run_id |-> 0, outcome |-> "",
   actual_result |-> None, updated |-> 0]
OutcomeEvent(type, t, signal_run_id, outcome, actual_result, raised) ==
  [type |-> type, t |-> t, signal_run_id |-> signal_run_id, outcome |-> outcome,
   actual_result |-> actual_result, raised |-> raised]

\* recorder.py:22-25: the error record_run_outcome raises for its
\* arguments, "" when it raises none.
Validate(outcome, actual_result) ==
  IF outcome \notin {"WIN", "LOSS", "SKIP"} THEN "ValueError"
  ELSE IF ~IsNone(actual_result) /\ Val(actual_result) \notin {"YES", "NO"}
    THEN "ValueError"
  ELSE ""

\* Variant: the UPDATE without `AND outcome IS NULL`.
UpdateOutcome_unconditional(rows, signal_run_id, outcome, actual_result, at) ==
  [i \in 1..Len(rows) |->
     IF i = signal_run_id
       THEN [rows[i] EXCEPT !.outcome = Some(outcome), !.resolved_at = Some(at),
                            !.actual_result = actual_result]
       ELSE rows[i]]

\* recorder.py:28-38: UPDATE signal_runs SET outcome, resolved_at,
\* actual_result WHERE id = $4 AND outcome IS NULL.
UpdateOutcome(rows, signal_run_id, outcome, actual_result, at) ==
  [i \in 1..Len(rows) |->
     IF i = signal_run_id /\ IsNone(rows[i].outcome)
       THEN [rows[i] EXCEPT !.outcome = Some(outcome), !.resolved_at = Some(at),
                            !.actual_result = actual_result]
       ELSE rows[i]]

\* recorder.py:53-69: the ids of the completed YES/NO runs without an
\* outcome whose market has ended, oldest first.
RECURSIVE fetch_unresolved_runs_from(_)
fetch_unresolved_runs_from(i) ==
  IF i > Len(signal_runs) THEN <<>>
  ELSE (IF /\ IsNone(signal_runs[i].outcome)
           /\ signal_runs[i].status = "ok"
           /\ signal_runs[i].direction \in {"YES", "NO"}
          THEN <<i>> ELSE <<>>)
       \o fetch_unresolved_runs_from(i + 1)
fetch_unresolved_runs == fetch_unresolved_runs_from(1)

\* record_run_outcome(signal_run_id, outcome, actual_result) is called by t:
\* it raises for bad arguments, else it goes for a connection; t goes on from `frame` into the call, from `back` when the
\* call raises.
EnterRecord(t, kind, signal_run_id, outcome, actual_result, frame, back) ==
  LET err == Validate(outcome, actual_result) IN
  /\ ev' = OutcomeEvent("record_call", t, signal_run_id, outcome, actual_result, err)
  /\ tasks' = [tasks EXCEPT ![t] =
                 IF err # "" THEN back
                 ELSE [frame EXCEPT !.pc = "updating", !.kind = kind,
                                   !.signal_run_id = signal_run_id,
                                   !.outcome = outcome,
                                   !.actual_result = actual_result]]
  /\ UNCHANGED signal_runs

\* A caller awaits record_run_outcome.
CallRecordRunOutcome(t, signal_run_id, outcome, actual_result) ==
  /\ tasks[t].pc = "idle"
  /\ EnterRecord(t, "direct", signal_run_id, outcome, actual_result,
                 IdleRecorder, IdleRecorder)
  /\ UNCHANGED <<now, _locks, _last_send, returned_at, varsIdle>>

\* recorder.py:27-44: the UPDATE runs and record_run_outcome returns; in
\* run_eod_outcomes the run counts as updated and the loop goes on.
ExecuteUpdate(t) ==
  LET f == tasks[t]
      rows == UpdateOutcome(signal_runs, f.signal_run_id, f.outcome,
                            f.actual_result, now)
  IN  /\ f.pc = "updating"
      /\ signal_runs' = rows
      /\ ev' = OutcomeEvent(IF rows = signal_runs THEN "update_0" ELSE "update_1",
                            t, f.signal_run_id, f.outcome, f.actual_result, "")
      /\ tasks' = [tasks EXCEPT ![t] =
                     IF f.kind = "direct" THEN IdleRecorder
                     ELSE [f EXCEPT !.pc = "loop", !.runs = Tail(@),
                                    !.updated = @ + 1]]
      /\ UNCHANGED <<now, _locks, _last_send, returned_at, varsIdle>>

\* recorder.py:99-101: run_eod_outcomes fetches the unresolved runs.
StartEodOutcomes(t) ==
  /\ tasks[t].pc = "idle"
  /\ tasks' = [tasks EXCEPT ![t] = [IdleRecorder EXCEPT !.pc = "loop", !.kind = "eod",
                                                        !.runs = fetch_unresolved_runs]]
  /\ ev' = OutcomeEvent("eod_start", t, 0, "", None, "")
  /\ UNCHANGED <<now, _locks, _last_send, returned_at, signal_runs, varsIdle>>

\* recorder.py:102-141, one turn of the loop up to record_run_outcome:
\* resolve_market_outcome hands back None, "YES" or "NO", or an exception
\* escapes the resolution.
ResolveRun(t, actual_result) ==
  LET f == tasks[t]
      run_id == Head(f.runs)
      direction == signal_runs[run_id].direction
      outcome == IF direction = "YES" /\ actual_result = Some("YES") THEN "WIN"
                 ELSE IF direction = "NO" /\ actual_result = Some("NO") THEN "WIN"
                 ELSE "LOSS"
  IN  /\ f.pc = "loop"
      /\ f.runs # <<>>
      /\ IF actual_result = Some("raise")
           THEN /\ tasks' = [tasks EXCEPT ![t].runs = Tail(@)]
                /\ ev' = OutcomeEvent("eod_run_failed", t, run_id, "", None, "")
                /\ UNCHANGED signal_runs
         ELSE IF IsNone(actual_result)
           THEN /\ tasks' = [tasks EXCEPT ![t].runs = Tail(@)]
                /\ ev' = OutcomeEvent("eod_skip_unresolved", t, run_id, "", None, "")
                /\ UNCHANGED signal_runs
         ELSE EnterRecord(t, "eod", run_id, outcome, actual_result, f,
                          [f EXCEPT !.runs = Tail(@)])
      /\ UNCHANGED <<now, _locks, _last_send, returned_at, varsIdle>>

\* recorder.py:142: the loop is over and run_eod_outcomes returns.
ReturnEodOutcomes(t) ==
  /\ tasks[t].pc = "loop"
  /\ tasks[t].runs = <<>>
  /\ tasks' = [tasks EXCEPT ![t] = IdleRecorder]
  /\ ev' = OutcomeEvent("eod_return", t, tasks[t].updated, "", None, "")
  /\ UNCHANGED <<now, _locks, _last_send, returned_at, signal_runs, varsIdle>>

\* datetime.now(timezone.utc) advances.
TickOutcomes ==
  /\ now < MaxDay
  /\ now' = now + 1
  /\ ev' = OutcomeEvent("tick", 0, 0, "", None, "")
  /\ UNCHANGED <<varsC, varsIdle>>

\* Two stored runs whose markets have ended: a completed YES or NO run and
\* a second run that is completed or still pending.
StoredRuns ==
  {<<SignalRun(1, "0xaaa", "ok", d), r>> :
     d \in {"YES", "NO"},
     r \in {SignalRun(1, "0xbbb", "ok", "YES"),
            SignalRun(1, "0xbbb", "pending", "NO_TRADE")}}

InitOutcomes ==
  /\ IdleAB
  /\ now = 1
  /\ ev = OutcomeEvent("init", 0, 0, "", None, "")
  /\ _locks = <<>>
  /\ _last_send = <<>>
  /\ returned_at = <<>>
  /\ signal_runs \in StoredRuns
  /\ tasks = [t \in OutcomeTasks |-> IdleRecorder]

NextOutcomes ==
  \/ \E t \in DirectCallers, signal_run_id \in RunIds, outcome \in OutcomeLabels :
       \E actual_result \in ActualResults :
         CallRecordRunOutcome(t, signal_run_id, outcome, actual_result)
  \/ \E t \in OutcomeTasks : ExecuteUpdate(t)
  \/ \E t \in OutcomeTasks : StartEodOutcomes(t)
  \/ \E t \in OutcomeTasks :
       \E actual_result \in {None, Some("YES"), Some("NO"), Some("raise")} :
         ResolveRun(t, actual_result)
  \/ \E t \in OutcomeTasks : ReturnEodOutcomes(t)
  \/ TickOutcomes

SpecOutcomes == InitOutcomes /\ [][NextOutcomes]_vars

\* ======================================================== claims, part A
\* Task c begins a with_retry call for source s in this step.
Begins(c, s) ==
  /\ calls[c].pc = "idle"
  /\ ev'.type \in {"short", "invoke"}
  /\ ev'.c = c
  /\ ev'.source_id = s

IsOpen(s) == circuits[s].present /\ circuits[s].open_until > now

\* C1: after circuit_failure_threshold consecutive failed with_retry calls
\* for a source, the next call (made before circuit_open_seconds have passed)
\* returns circuit_open without invoking fetch_fn; a call made once the
\* deadline of an opened circuit has passed invokes fetch_fn again.
C1_OpensAfterThresholdFailures ==
  [][\A c \in Callers, s \in AllSources :
       (Begins(c, s) /\ Alone(c, s)) =>
         /\ (hist[s].consec_failed >= settings.circuit_failure_threshold
             /\ now < hist[s].reached_at + settings.circuit_open_seconds)
            => (ev'.type = "short" /\ ev'.fetches = 0
                /\ ev'.result = Some(circuit_open_result(s)))
         /\ (circuits[s].present /\ circuits[s].open_until > 0
             /\ now >= circuits[s].open_until)
            => (ev'.type = "invoke" /\ ev'.fetches = 1)]_vars

\* C2: a call made while the source's circuit is open returns at once with
\* error circuit_open and no score, invokes fetch_fn zero times, sleeps zero
\* times, and leaves every CircuitState as it was.
C2_OpenCircuitCallIsInert ==
  [][\A c \in Callers, s \in AllSources :
       (Begins(c, s) /\ IsOpen(s)) =>
         /\ ev'.result # None
         /\ Val(ev'.result).error = Some("circuit_open")
         /\ Val(ev'.result).normalized_score = None
         /\ Val(ev'.result).source_id = s
         /\ ev'.fetches = 0
         /\ ev'.sleeps = 0
         /\ calls'[c].pc = "idle"
         /\ circuits' = circuits]_vars

C2_Witness ==
  /\ ev.type = "short"
  /\ circuits[ev.source_id].open_until > now
  /\ \E s \in AllSources : s # ev.source_id /\ circuits[s].present

\* C3: half-open by timeout.  A call begun before the deadline of an opened
\* circuit short-circuits; the first call at or after the deadline resets the
\* state to zero failures and no deadline; reaching the threshold sets the
\* deadline to now + circuit_open_seconds; and the deadline only moves when
\* the count, which grows by one per failure, has reached the threshold again.
C3_HalfOpenByTimeout ==
  [][\A s \in AllSources :
       /\ \A c \in Callers :
            Begins(c, s) =>
              /\ IsOpen(s) => ev'.type = "short"
              /\ (circuits[s].present /\ ~IsOpen(s)) =>
                    (ev'.type = "invoke" /\ circuits'[s] = CircuitState(0, 0))
       /\ (circuits'[s].failure_count >= settings.circuit_failure_threshold
           /\ circuits'[s].failure_count # circuits[s].failure_count)
          => circuits'[s].open_until = now + settings.circuit_open_seconds
       /\ circuits'[s].open_until > circuits[s].open_until
          => circuits'[s].failure_count >= settings.circuit_failure_threshold
       /\ circuits'[s].failure_count <= circuits[s].failure_count + 1]_vars

C3_Witness ==
  /\ ev.type = "invoke"
  /\ settings.circuit_failure_threshold = 1
  /\ hist[ev.source_id].consec_failed >= 1
  /\ now >= hist[ev.source_id].reached_at + settings.circuit_open_seconds
  /\ circuits[ev.source_id] = CircuitState(0, 0)

\* C4: a call invokes fetch_fn at most retry_attempts times; when an
\* invocation returns, the source's failure_count is 0, the call ends without
\* another invocation and hands back the very FetcherResult fetch_fn returned.
C4_SuccessResetsAndReturnsUnchanged ==
  /\ [](\A c \in Callers : calls[c].fetches <= settings.retry_attempts)
  /\ [][\A c \in Callers :
          (calls[c].pc = "fetching" /\ ev'.c = c /\ ev'.type = "return") =>
            /\ ev'.fetch # None
            /\ ev'.result = Val(ev'.fetch).result
            /\ ev'.fetches = calls[c].fetches
            /\ ev'.fetches <= settings.retry_attempts
            /\ calls'[c].pc = "idle"
            /\ circuits'[calls[c].source_id].failure_count = 0]_vars

C4_Witness ==
  /\ ev.type = "return"
  /\ ev.fetches = 2
  /\ circuits[ev.source_id].present
  /\ Val(ev.result).normalized_score # None

\* C5: when every attempt raised, the call returns (it does not raise): the
\* source's failure_count grows by exactly one, open_until becomes
\* now + circuit_open_seconds if the new count has reached the threshold and
\* is untouched otherwise, and the result has no score and carries the
\* message of the exception raised last.
C5_ExhaustedCallRecordsOneFailure ==
  [][\A c \in Callers :
       (calls[c].pc = "sleeping" /\ calls'[c].pc = "idle") =>
         LET s == calls[c].source_id
             fc == circuits[s].failure_count + 1
         IN  /\ ev'.type = "exhausted" /\ ev'.c = c
             /\ ev'.fetches = settings.retry_attempts
             /\ circuits'[s].present
             /\ circuits'[s].failure_count = fc
             /\ circuits'[s].open_until =
                  IF fc >= settings.circuit_failure_threshold
                    THEN now + settings.circuit_open_seconds
                    ELSE circuits[s].open_until
             /\ \A o \in AllSources \ {s} : circuits'[o] = circuits[o]
             /\ ev'.result # None
             /\ Val(ev'.result).normalized_score = None
             /\ Val(ev'.result).raw_value = None
             /\ Val(ev'.result).error = Some(calls[c].raised)]_vars

C5_Witness ==
  /\ ev.type = "exhausted"
  /\ ev.fetches = 2
  /\ circuits[ev.source_id].failure_count = settings.circuit_failure_threshold
  /\ circuits[ev.source_id].open_until = now + settings.circuit_open_seconds
  /\ Val(ev.result).error = Some("503")

\* ======================================================== claims, fetchers
\* The fetchers that derive their score from a numeric raw value and reach
\* their normalize in the model.
NumericFetchers == {"fear_greed", "price_1h_momentum"}

\* Stage a occurs in steps, and before every occurrence of stage b.
Precedes(steps, a, b) ==
  \E i \in 1..Len(steps) :
    /\ steps[i] = a
    /\ \A j \in 1..Len(steps) : steps[j] = b => i < j

\* C6: when the upstream fails (network/HTTP error) during an attempt of a
\* source fetcher's fetch, with_retry sees the attempt fail: the call does not
\* end there, it backs off for retry_base_delay * 2^attempt before the next
\* attempt (or before recording the failure against the source's circuit),
\* and no success is recorded for the source.
C6_TransientFailureIsRetriedAndCounted ==
  [][\A c \in Callers :
       (/\ calls[c].pc = "fetching"
        /\ calls[c].source_id \in NumericFetchers
        /\ ev'.c = c
        /\ ev'.type \in {"return", "raise"}
        /\ Val(ev'.net).kind = "http_error") =>
          /\ ev'.type = "raise"
          /\ calls'[c].pc = "sleeping"
          /\ calls'[c].wake_at = now + delay(calls[c].attempt)
          /\ circuits' = circuits]_vars

\* C7: every result with a score that a numeric fetcher hands back went
\* through check_bounds after the raw fetch and before normalize, and a raw
\* value outside the source's bounds yields the out_of_range result.
C7_BoundsCheckedBeforeNormalize ==
  [][\A c \in Callers :
       (/\ calls[c].pc = "fetching"
        /\ calls[c].source_id \in NumericFetchers
        /\ ev'.c = c
        /\ ev'.type = "return") =>
          LET s == calls[c].source_id
              out == Val(ev'.fetch)
              r == Val(ev'.result)
              net == Val(ev'.net)
          IN  /\ r.normalized_score # None =>
                   /\ Precedes(out.steps, "get", "check_bounds")
                   /\ Precedes(out.steps, "check_bounds", "normalize")
              /\ (net.kind = "value" /\ ~check_bounds(s, Some(net.value))) =>
                   r = out_of_range_result(s)]_vars

\* C8: the list _run_fetchers_async returns has exactly one FetcherResult per
\* fetcher, in the order of the fetcher list, each with its fetcher's
\* source_id, whichever tasks failed and in whatever order they completed; a
\* task that raised is represented by a result without score or raw value
\* whose error is the exception's message, a task that returned by the very
\* result it returned.
C8_OneResultPerFetcherInOrder ==
  (~batch.active /\ batch.fetchers # <<>>) =>
    /\ Len(snapshot) = Len(batch.fetchers)
    /\ \A i \in 1..Len(batch.fetchers) :
         /\ snapshot[i].source_id = batch.fetchers[i]
         /\ Val(results[i]).kind = "raised" =>
              /\ snapshot[i].normalized_score = None
              /\ snapshot[i].raw_value = None
              /\ snapshot[i].error = Some(Val(results[i]).error)
         /\ Val(results[i]).kind = "returned" =>
              snapshot[i] = Val(Val(results[i]).result)

C8_Witness ==
  /\ ~batch.active
  /\ Len(batch.fetchers) = 2
  /\ batch.order = <<2, 1>>
  /\ Val(results[1]).kind = "raised"
  /\ Len(snapshot) = 2
  /\ snapshot[1].error = Some("boom")
  /\ snapshot[2].normalized_score # None

\* ======================================================== claims, part B
\* The entries of the snapshot that carry a score.
Scored == {i \in 1..Len(args.results) : args.results[i].normalized_score # None}

\* The weight table the call is made with: the one passed, else get_weights().
WeightTable == IF IsNone(args.weights) THEN get_weights ELSE Val(args.weights)

\* The weight of entry i: 0 for a source absent from the table.
WeightAt(i) ==
  IF args.results[i].source_id \in DOMAIN WeightTable
    THEN WeightTable[args.results[i].source_id]
    ELSE R(0, 1)

RECURSIVE SumOver(_, _)
SumOver(S, f) ==
  IF S = {} THEN R(0, 1)
  ELSE LET i == CHOOSE x \in S : TRUE IN RAdd(f[i], SumOver(S \ {i}, f))

SumOfWeights == SumOver(Scored, [i \in Scored |-> WeightAt(i)])
SumOfProducts ==
  SumOver(Scored,
          [i \in Scored |->
             RMul(R(Val(args.results[i].normalized_score), 10), WeightAt(i))])

\* C9: weighted_score returns clamp(sum(score*weight)/sum(weight), -2, 2),
\* both sums over the scored entries only and a source absent from the
\* table weighing 0; the value lies in [-2, 2]; a single scored source at
\* +2 with weight 1.0 gives exactly +2.
C9_WeightedScoreIsRenormalizedMean ==
  (ret # None /\ Val(ret).fn = "weighted_score") =>
    /\ ~Val(ret).raised
    /\ LET c == Val(Val(ret).value) IN
       /\ SumOfWeights.n > 0 =>
            c = RMax(R(0 - 2, 1), RMin(R(2, 1), RDiv(SumOfProducts, SumOfWeights)))
       /\ RLe(R(0 - 2, 1), c)
       /\ RLe(c, R(2, 1))
       /\ (\E i \in Scored :
             /\ Scored = {i}
             /\ args.results[i].normalized_score = Some(20)
             /\ WeightAt(i) = R(1, 1)) => c = R(2, 1)

C9_Witness ==
  /\ ret # None
  /\ Val(ret).fn = "weighted_score"
  /\ Scored = {1, 2}
  /\ args.results[1].normalized_score = Some(20)
  /\ args.results[2].normalized_score = Some(0 - 10)
  /\ WeightAt(1) = R(1, 1)
  /\ WeightAt(2) = R(10, 100)
  /\ Val(Val(ret).value) = R(19, 11)

\* C10: when no entry of the snapshot has a score, or every scored source
\* weighs 0, weighted_score returns exactly 0.0 and run_engine returns a
\* SignalResult without raising, with model_p = 0.50 and a direction among
\* YES, NO and NO_TRADE.
C10_NoUsableSignalIsNeutral ==
  (ret # None /\ \A i \in Scored : WeightAt(i).n = 0) =>
    /\ ~Val(ret).raised
    /\ Val(ret).fn = "weighted_score" => Val(Val(ret).value) = R(0, 1)
    /\ Val(ret).fn = "run_engine" =>
         /\ Val(Val(ret).value).model_p = R(50, 100)
         /\ Val(Val(ret).value).direction \in {"YES", "NO", "NO_TRADE"}

C10_Witness ==
  /\ ret # None
  /\ Val(ret).fn = "run_engine"
  /\ Scored # {}
  /\ \A i \in Scored : WeightAt(i).n = 0
  /\ ~Val(ret).raised
  /\ Val(Val(ret).value).model_p = R(50, 100)
  /\ Val(Val(ret).value).direction = "NO"

\* ===================================================== claims, the sizing
\* The call of fn has returned v.
Called(fn) == args # None /\ args.fn = fn /\ ret # None /\ Val(ret).fn = fn
Value == Val(Val(ret).value)

\* 0.15 + (score + 2) / 4 * 0.70, unrounded.
LinearMap(score) ==
  RAdd(R(15, 100), RMul(RDiv(RAdd(score, R(2, 1)), R(4, 1)), R(70, 100)))

\* The parts of the mapping that do not depend on rounding: the range, the
\* clamped ends, the three fixed points and monotonicity over the grid.
ScoreToProbShape ==
  /\ RLe(R(15, 100), Value) /\ RLe(Value, R(85, 100))
  /\ RLe(args.score, R(0 - 2, 1)) => Value = R(15, 100)
  /\ RLe(R(2, 1), args.score) => Value = R(85, 100)
  /\ args.score = R(0, 1) => Value = R(1, 2)
  /\ \A t \in ScoreGrid :
       RLe(t, args.score) => RLe(score_to_model_p(t), Value)

Inside(score) == RLt(R(0 - 2, 1), score) /\ RLt(score, R(2, 1))

\* C11, as stated: score_to_model_p maps every score into [0.15, 0.85], is
\* non-decreasing, returns 0.15 at or below -2 and 0.85 at or above 2, and
\* in between equals 0.15 + (score + 2) / 4 * 0.70.
C11_ExactLinearMap ==
  Called("score_to_model_p") =>
    /\ ScoreToProbShape
    /\ Inside(args.score) => Value = LinearMap(args.score)

\* C11, amended: as above, but in between the result is the linear map
\* rounded to four decimal places.
C11_ScoreToModelP ==
  Called("score_to_model_p") =>
    /\ ScoreToProbShape
    /\ Inside(args.score) => Value = round(LinearMap(args.score), 4)

\* A score strictly inside (-2, 2) whose linear image has more than four
\* decimals has been mapped.
C11_Witness ==
  /\ Called("score_to_model_p")
  /\ Inside(args.score)
  /\ Value # LinearMap(args.score)

\* The edges of the two sides, as differences of the arguments.
EdgeYes == RSub(args.model_p, args.market_p_yes)
EdgeNo == RSub(Val(args.market_bid), args.model_p)

\* C12: direction_from_edge returns YES if p - market >= threshold;
\* otherwise NO if a bid is given and bid - p >= threshold; otherwise
\* NO_TRADE.  YES has priority, NO needs a bid, one threshold serves both
\* sides and an edge equal to the threshold trades.
C12_DirectionFromEdge ==
  Called("direction_from_edge") =>
    /\ Value.direction =
         IF RLe(settings.edge_threshold, EdgeYes) THEN "YES"
         ELSE IF ~IsNone(args.market_bid) /\ RLe(settings.edge_threshold, EdgeNo)
           THEN "NO"
         ELSE "NO_TRADE"
    /\ IsNone(args.market_bid) => Value.direction # "NO"

\* Both edges qualify and the YES edge sits exactly on the threshold: YES.
C12_Witness ==
  /\ Called("direction_from_edge")
  /\ ~IsNone(args.market_bid)
  /\ EdgeYes = settings.edge_threshold
  /\ RLe(settings.edge_threshold, EdgeNo)
  /\ Value.direction = "YES"

\* The NO edge sits exactly on the threshold and the YES edge misses it by
\* one tick: NO.
C12_WitnessNo ==
  /\ Called("direction_from_edge")
  /\ ~IsNone(args.market_bid)
  /\ RLt(EdgeYes, settings.edge_threshold)
  /\ EdgeNo = settings.edge_threshold
  /\ Value.direction = "NO"

\* The caps of recommended_size_usd under the arguments of the call.
SizeKelly ==
  RMul(RMul(args.bankroll_usd, kelly_fraction(args.model_p, args.market_p_yes)),
       IfSet(args.kelly_fraction_override, settings.kelly_fraction))
SizeCapPct == RMul(args.bankroll_usd, settings.max_bankroll_pct)

\* C14, as stated: recommended_size_usd is never negative and is <= each
\* of: bankroll * kelly_fraction(p, price) * the Kelly multiplier used,
\* bankroll * max_bankroll_pct, max_safe_size_usd and the user cap
\* max_bet_usd that was passed.
C14_NeverAboveAnyCap ==
  Called("recommended_size_usd") =>
    /\ Value.n >= 0
    /\ RLe(Value, SizeKelly)
    /\ RLe(Value, SizeCapPct)
    /\ RLe(Value, args.max_safe_size_usd)
    /\ ~IsNone(args.max_bet_usd) => RLe(Value, Val(args.max_bet_usd))

\* C14, amended: the result is never negative and is <= each of the caps
\* rounded to a whole number of cents.
C14_NeverAboveAnyRoundedCap ==
  Called("recommended_size_usd") =>
    /\ Value.n >= 0
    /\ RLe(Value, round(SizeKelly, 2))
    /\ RLe(Value, round(SizeCapPct, 2))
    /\ RLe(Value, round(args.max_safe_size_usd, 2))
    /\ ~IsNone(args.max_bet_usd) => RLe(Value, round(Val(args.max_bet_usd), 2))

\* The Kelly size is the smallest cap, is not a whole number of cents, and
\* a positive stake was returned.
C14_Witness ==
  /\ Called("recommended_size_usd")
  /\ Value.n > 0
  /\ RLt(SizeKelly, SizeCapPct)
  /\ RLt(SizeKelly, args.max_safe_size_usd)
  /\ ~IsNone(args.max_bet_usd) /\ RLt(SizeKelly, Val(args.max_bet_usd))
  /\ round(SizeKelly, 2) # SizeKelly

\* p - (1 - p) * price / (1 - price), for a price other than 1.
KellyClosedForm(p, price) ==
  RSub(p, RDiv(RMul(RSub(R(1, 1), p), price), RSub(R(1, 1), price)))

\* C15: kelly_fraction(p, price) equals p - (1-p)*price/(1-price) clamped
\* to [0, 1] for a price strictly inside (0, 1), equals 0 for a price <= 0
\* or >= 1, and so is 0 whenever p <= price.
C15_KellyFraction ==
  Called("kelly_fraction") =>
    /\ (args.price_yes.n <= 0 \/ RLe(R(1, 1), args.price_yes)) => Value = R(0, 1)
    /\ (args.price_yes.n > 0 /\ RLt(args.price_yes, R(1, 1))) =>
         Value = RMax(R(0, 1), RMin(R(1, 1), KellyClosedForm(args.model_p, args.price_yes)))
    /\ RLe(args.model_p, args.price_yes) => Value = R(0, 1)

\* A price inside (0, 1) below the model probability: a fraction strictly
\* between 0 and 1 was returned.
C15_Witness ==
  /\ Called("kelly_fraction")
  /\ args.price_yes.n > 0 /\ RLt(args.price_yes, args.model_p)
  /\ Value.n > 0 /\ RLt(Value, R(1, 1))
  /\ Value = KellyClosedForm(args.model_p, args.price_yes)

\* The side of the parsed book the call walks, best price first.
Book == parse_order_book([bids |-> args.levels, asks |-> args.levels])
SideLevels == IF args.side = "ask" THEN Book.asks ELSE Book.bids
BestPrice == IF args.side = "ask" THEN Book.best_ask ELSE Book.best_bid

\* Cost and shares of the first j levels, and their volume-weighted average
\* price (the price of level j while no share has been counted).
RECURSIVE PrefixCost(_)
PrefixCost(j) ==
  IF j = 0 THEN R(0, 1)
  ELSE RAdd(PrefixCost(j - 1), RMul(SideLevels[j].price, SideLevels[j].size))
RECURSIVE PrefixShares(_)
PrefixShares(j) ==
  IF j = 0 THEN R(0, 1) ELSE RAdd(PrefixShares(j - 1), SideLevels[j].size)
PrefixVwap(j) ==
  IF PrefixShares(j).n > 0 THEN RDiv(PrefixCost(j), PrefixShares(j))
  ELSE SideLevels[j].price

\* |vwap - best| / best of the first j levels is within the limit.
WithinLimit(j) ==
  LET dev == RDiv(RSub(PrefixVwap(j), Val(BestPrice)), Val(BestPrice))
  IN  RLe([n |-> Abs(dev.n), d |-> dev.d], settings.slippage_limit)

\* The longest prefix every nonempty prefix of which is within the limit.
LongestSafePrefix ==
  CHOOSE j \in 0..Len(SideLevels) :
    /\ \A i \in 1..j : WithinLimit(i)
    /\ j < Len(SideLevels) => ~WithinLimit(j + 1)

NoBestPrice == SideLevels = <<>> \/ IsNone(BestPrice) \/ Val(BestPrice).n <= 0

\* C16, as stated: max_safe_size_usd returns the cumulative cost of the
\* longest prefix of levels, walked from the best price outward, whose
\* every prefix has a volume-weighted average price within slippage_limit
\* of the best price; no later level is accepted.  An empty side or a
\* missing or non-positive best price gives exactly 0, a single level
\* within the limit exactly price * size.
C16_CostOfLongestSafePrefix ==
  Called("max_safe_size_usd") =>
    /\ NoBestPrice => Value = R(0, 1)
    /\ ~NoBestPrice => Value = PrefixCost(LongestSafePrefix)
    /\ (~NoBestPrice /\ Len(SideLevels) = 1) =>
         Value = RMul(SideLevels[1].price, SideLevels[1].size)

\* C16, amended: the cost returned is rounded to two decimal places.
C16_RoundedCostOfLongestSafePrefix ==
  Called("max_safe_size_usd") =>
    /\ NoBestPrice => Value = R(0, 1)
    /\ ~NoBestPrice => Value = round(PrefixCost(LongestSafePrefix), 2)
    /\ (~NoBestPrice /\ Len(SideLevels) = 1) =>
         Value = round(RMul(SideLevels[1].price, SideLevels[1].size), 2)

\* The walk accepted a level, stopped before a later one, and the accepted
\* cost is not a whole number of cents.
C16_Witness ==
  /\ Called("max_safe_size_usd")
  /\ ~NoBestPrice
  /\ LongestSafePrefix >= 1
  /\ LongestSafePrefix < Len(SideLevels)
  /\ round(PrefixCost(LongestSafePrefix), 2) # PrefixCost(LongestSafePrefix)
  /\ Value.n > 0

\* =============================================== claims, the daily engine
RunEngineReturned ==
  /\ args # None /\ args.fn = "run_engine"
  /\ ret # None /\ Val(ret).fn = "run_engine" /\ ~Val(ret).raised

\* The stake of a purchase of the "No" side at 1 - best bid, under the
\* arguments of the call.
StakeAtOneMinusBid ==
  recommended_size_usd(RSub(R(1, 1), Value.model_p),
                       RSub(R(1, 1), args.quote.best_bid),
                       OrElse(args.bankroll_usd, settings.default_bankroll_usd),
                       args.quote.max_safe_size_usd, args.max_bet_usd,
                       args.kelly_fraction_override)

\* C13: when run_engine decides NO (best bid - model_p >= threshold), the
\* stake is sized as a purchase of the "No" side priced at 1 - best bid.
C13_NoSidePricedFromBid ==
  (RunEngineReturned /\ Value.direction = "NO") =>
    Value.recommended_usd = StakeAtOneMinusBid

\* ============================================ claims, the intraday engine
\* run_engine_15m went past the history check.
FullHistory == args.candles_1m.len >= RSI_PERIOD + 10

\* C17: with remaining_minutes = 0 the time decay makes model_up exactly
\* 0.5 (and model_down 0.5) for every raw_up, and run_engine_15m answers
\* NO_TRADE with zero stake for every market Up/Down price.
C17_ExpiredWindowIsNeutral ==
  /\ (Called("_apply_time_awareness") /\ args.remaining_minutes = Some(R(0, 1))) =>
       Value = <<R(1, 2), R(1, 2)>>
  /\ (Called("run_engine_15m") /\ args.remaining_minutes = Some(R(0, 1))) =>
       /\ ~Val(ret).raised
       /\ Value.model_up = R(1, 2)
       /\ Value.model_down = R(1, 2)
       /\ Value.direction = "NO_TRADE"
       /\ Value.recommended_usd = R(0, 1)

\* No time left, a full history with every reading bullish (raw_up 0.9) and
\* an Up price so low that the edge alone passes the LATE threshold.
C17_Witness ==
  /\ Called("run_engine_15m")
  /\ args.remaining_minutes = Some(R(0, 1))
  /\ FullHistory
  /\ _score_direction(args.candles_1m.ta) = R(9, 10)
  /\ RLe(R(20, 100), Val(Value.edge_up))
  /\ Value.direction = "NO_TRADE"

\* The phase containing rem minutes, and the thresholds of a phase.
PhaseOf(rem) ==
  IF RLt(R(10, 1), rem) THEN "EARLY"
  ELSE IF RLe(R(5, 1), rem) THEN "MID"
  ELSE "LATE"
MinEdge(phase) ==
  IF phase = "EARLY" THEN R(5, 100) ELSE IF phase = "MID" THEN R(10, 100) ELSE R(20, 100)
MinProb(phase) ==
  IF phase = "EARLY" THEN R(55, 100) ELSE IF phase = "MID" THEN R(60, 100) ELSE R(65, 100)

\* A decision and its phase agree with the three-phase policy at rem
\* minutes, for the edges and model probabilities of the two sides.
FollowsPolicy(rem, direction, phase, edge_up, edge_down, model_up, model_down) ==
  /\ phase = PhaseOf(rem)
  /\ direction \in {"BUY_UP", "BUY_DOWN", "NO_TRADE"}
  /\ direction = "BUY_UP" =>
       /\ RLe(MinEdge(PhaseOf(rem)), Val(edge_up))
       /\ RLe(MinProb(PhaseOf(rem)), model_up)
  /\ direction = "BUY_DOWN" =>
       /\ RLe(MinEdge(PhaseOf(rem)), Val(edge_down))
       /\ RLe(MinProb(PhaseOf(rem)), model_down)

\* The edges the _decide call was made with.
DecideEdges ==
  _compute_edge_up_down(args.model_up, RSub(R(1, 1), args.model_up),
                        args.market_up_norm,
                        IF IsNone(args.market_up_norm) THEN None
                        ELSE Some(RSub(R(1, 1), Val(args.market_up_norm))))

\* C18: the decision is keyed by the time left: EARLY above 10 minutes
\* (edge >= 0.05, probability >= 0.55), MID from 5 to 10 minutes (0.10,
\* 0.60), LATE below 5 minutes (0.20, 0.65); a side is returned only if its
\* edge and model probability meet the thresholds of the phase containing
\* remaining_minutes, otherwise NO_TRADE.
C18_ThreePhasePolicy ==
  /\ (Called("_decide") /\ ~IsNone(args.remaining_minutes)) =>
       FollowsPolicy(Val(args.remaining_minutes), Value[1], Value[2],
                     DecideEdges[1], DecideEdges[2],
                     args.model_up, RSub(R(1, 1), args.model_up))
  /\ (Called("run_engine_15m") /\ FullHistory /\ ~IsNone(args.remaining_minutes)) =>
       FollowsPolicy(Val(args.remaining_minutes), Value.direction, Value.phase,
                     Value.edge_up, Value.edge_down,
                     Value.model_up, Value.model_down)

\* C19: run_engine_15m on fewer than RSI_PERIOD + 10 = 24 one-minute
\* candles, the empty list included, returns NO_TRADE with recommended_usd
\* 0 and model probabilities 0.5 / 0.5 without raising, for every quote,
\* remaining time and bankroll.
C19_ShortHistoryIsNoTrade ==
  (Called("run_engine_15m") /\ args.candles_1m.len < 24) =>
    /\ ~Val(ret).raised
    /\ Value.direction = "NO_TRADE"
    /\ Value.recommended_usd = R(0, 1)
    /\ Value.model_up = R(1, 2)
    /\ Value.model_down = R(1, 2)

\* 23 candles whose readings, the time left and the quote would make a
\* trade were the history long enough.
C19_Witness ==
  /\ Called("run_engine_15m")
  /\ args.candles_1m.len = 23
  /\ _signal_15m(args).direction = "BUY_UP"
  /\ _signal_15m(args).recommended_usd.n > 0
  /\ Value.direction = "NO_TRADE"

\* C20: in both engines a NO_TRADE decision carries no stake: run_engine and
\* run_engine_15m return recommended_usd 0.0 and no liquidity warning with
\* it, and a positive recommended_usd comes with a trade direction.
C20_NoTradeCarriesNoStake ==
  /\ RunEngineReturned =>
       /\ Value.direction = "NO_TRADE" =>
            Value.recommended_usd = R(0, 1) /\ IsNone(Value.liquidity_warning)
       /\ Value.recommended_usd.n > 0 => Value.direction \in {"YES", "NO"}
  /\ Called("run_engine_15m") =>
       /\ Value.direction = "NO_TRADE" =>
            Value.recommended_usd = R(0, 1) /\ IsNone(Value.liquidity_warning)
       /\ Value.recommended_usd.n > 0 => Value.direction \in {"BUY_UP", "BUY_DOWN"}

\* run_engine answered NO_TRADE on a quote whose liquidity-safe size is
\* below the 100 USD a trade would be warned about.
C20_Witness ==
  /\ RunEngineReturned
  /\ Value.direction = "NO_TRADE"
  /\ RLt(args.quote.max_safe_size_usd, R(100, 1))
  /\ Value.recommended_usd = R(0, 1)

\* ================================== claims, the breaker under concurrency
\* C24: within one with_retry call a backoff sleep happens only between two
\* attempts: the sleep after failed attempt k (0-based) lasts
\* retry_base_delay * 2^k and is followed by another fetch_fn invocation, so
\* a call that exhausts its attempts has slept retry_attempts - 1 times and
\* does not sleep after its final attempt.
C24_SleepOnlyBetweenAttempts ==
  [][\A c \in Callers :
       /\ (calls[c].pc = "fetching" /\ calls'[c].pc = "sleeping") =>
            /\ calls'[c].wake_at =
                 now + settings.retry_base_delay * Pow2(calls[c].attempt)
            /\ calls[c].attempt + 1 < settings.retry_attempts
       /\ (calls[c].pc = "sleeping" /\ calls'[c].pc # "sleeping") =>
            (ev'.type = "retry" /\ ev'.c = c)
       /\ (ev'.type = "exhausted" /\ ev'.c = c) =>
            ev'.sleeps = settings.retry_attempts - 1]_vars

\* C26: in every reachable state the failure_count of every source is at
\* most circuit_failure_threshold, whatever the interleaving of concurrent
\* with_retry calls for the source.
C26_FailureCountWithinThreshold ==
  \A s \in AllSources :
    circuits[s].failure_count <= settings.circuit_failure_threshold

\* Task c invokes fetch_fn for source s in this step.
Invokes(c, s) ==
  /\ ev'.type \in {"invoke", "retry"}
  /\ ev'.c = c
  /\ ev'.source_id = s

\* C27: while a source's circuit is open (now < open_until) no fetch_fn
\* invocation for the source begins, not even from a call that started
\* before the circuit opened and is still retrying.
C27_NoFetchWhileOpen ==
  [][\A c \in Callers, s \in AllSources :
       Invokes(c, s) => ~IsOpen(s)]_vars

\* C28: a source's circuit is open (open_until > now) only if its
\* failure_count is at least circuit_failure_threshold; so after a call has
\* succeeded and reset the count to 0 the next call is not answered
\* circuit_open.
C28_OpenOnlyAtThreshold ==
  /\ [](\A s \in AllSources :
          IsOpen(s) =>
            circuits[s].failure_count >= settings.circuit_failure_threshold)
  /\ [][\A c \in Callers, s \in AllSources :
          (Begins(c, s) /\ circuits[s].failure_count = 0) =>
            ev'.type = "invoke"]_vars

\* ======================================= claims, the result of run_engine
\* The weight the composite scorer applied to a source in the call.
AppliedWeight(source_id) == Get(EffectiveWeights(args.weights), source_id)

\* C29: in the SignalResult of run_engine the reasoning entry of each
\* source reports contribution = normalized_score * w, w being the weight
\* the composite scorer applied to the source in the same call (the weights
\* argument when one is passed, else the default table); a source without
\* a score reports no contribution.
C29_ReasoningUsesAppliedWeights ==
  RunEngineReturned =>
    /\ Len(Value.reasoning) = Len(args.results)
    /\ \A i \in 1..Len(args.results) :
         /\ Value.reasoning[i].factor = args.results[i].source_id
         /\ Value.reasoning[i].contribution =
              IF IsNone(args.results[i].normalized_score) THEN None
              ELSE Some(RMul(Score(Val(args.results[i].normalized_score)),
                             AppliedWeight(args.results[i].source_id)))

\* C30: the edge reported by run_engine agrees with the direction: YES
\* carries model_p - market_p >= edge_threshold, NO carries
\* best_bid - model_p >= edge_threshold, NO_TRADE carries the YES edge,
\* which is below edge_threshold.
C30_EdgeAgreesWithDirection ==
  RunEngineReturned =>
    LET edge_yes == RSub(Value.model_p, Value.market_p)
        edge_no == RSub(args.quote.best_bid, Value.model_p)
    IN  /\ Value.direction = "YES" =>
             Value.edge = edge_yes /\ RLe(settings.edge_threshold, Value.edge)
        /\ Value.direction = "NO" =>
             Value.edge = edge_no /\ RLe(settings.edge_threshold, Value.edge)
        /\ Value.direction = "NO_TRADE" =>
             Value.edge = edge_yes /\ RLt(Value.edge, settings.edge_threshold)
        /\ Value.direction \in {"YES", "NO", "NO_TRADE"}

\* run_engine decided NO on a quote whose two edges differ.
C30_Witness ==
  /\ RunEngineReturned
  /\ Value.direction = "NO"
  /\ Value.edge = RSub(args.quote.best_bid, Value.model_p)
  /\ Value.edge # RSub(Value.model_p, Value.market_p)

\* ============================================ claims, fetchers by market
\* The snapshot with the scores of the sources in g replaced by g's.
WithScores(rs, g) ==
  [i \in 1..Len(rs) |->
     IF rs[i].source_id \in DOMAIN g
       THEN SnapshotEntry(rs[i].source_id, g[rs[i].source_id])
       ELSE rs[i]]
Composite(rs, w) == weighted_score(_results_to_score_tuples(rs), Some(w))
HasResultOf(rs, source_id) == \E i \in 1..Len(rs) : rs[i].source_id = source_id
SilencedSources == {"macro", "etf_flows", "dxy"}

\* C25: run_fetchers_for_market on an hourly Up/Down market returns a
\* snapshot with the momentum result and the hourly weight table, where
\* macro, etf_flows and dxy weigh 0 and price_1h_momentum weighs more than
\* 0, so that the composite score of the snapshot does not change when the
\* macro/etf_flows/dxy scores change; on any other market it returns
\* get_weights() and a snapshot without a momentum result.
C25_FetchersAndWeightsByHorizon ==
  Called("run_fetchers_for_market") =>
    IF is_btc_up_down_hourly_market(args.market)
      THEN /\ HasResultOf(Value.results, "price_1h_momentum")
           /\ \A i \in 1..Len(get_all_fetchers) :
                Value.results[i].source_id = get_all_fetchers[i]
           /\ Value.weights = HOURLY_WEIGHTS
           /\ \A s \in SilencedSources : Value.weights[s] = R(0, 1)
           /\ RLt(R(0, 1), Value.weights["price_1h_momentum"])
           /\ \A g \in [SilencedSources -> ScoreChoices] :
                Composite(WithScores(Value.results, g), Value.weights)
                  = Composite(Value.results, Value.weights)
      ELSE /\ Value.weights = get_weights
           /\ ~HasResultOf(Value.results, "price_1h_momentum")
           /\ Len(Value.results) = Len(get_all_fetchers)
           /\ \A i \in 1..Len(get_all_fetchers) :
                Value.results[i].source_id = get_all_fetchers[i]

\* An hourly market whose silenced sources are all scored and whose
\* composite is carried by funding and momentum.
C25_Witness ==
  /\ Called("run_fetchers_for_market")
  /\ is_btc_up_down_hourly_market(args.market)
  /\ \A s \in SilencedSources : args.outcome[s] = Some(20)
  /\ args.outcome["price_1h_momentum"] = Some(0 - 10)
  /\ RLt(Composite(Value.results, Value.weights), R(0, 1))

\* ================================================= claims, rate limiter
\* No coroutine is inside wait_if_needed for the chat.
ChatQuiet(chat_id) ==
  \A t \in RateTasks : tasks[t].pc # "idle" => tasks[t].chat_id # chat_id

\* Whoever waits or sleeps is held up by its own chat only.
HeldUpByOwnChat ==
  \A t \in RateTasks :
    LET chat_id == tasks[t].chat_id IN
    /\ tasks[t].pc = "waiting" =>
         /\ \E i \in 1..Len(_locks[chat_id].waiters) : _locks[chat_id].waiters[i] = t
         /\ \A i \in 1..Len(_locks[chat_id].waiters) :
              tasks[_locks[chat_id].waiters[i]].chat_id = chat_id
         /\ _locks[chat_id].locked =>
              tasks[_locks[chat_id].holder].chat_id = chat_id
    /\ tasks[t].pc = "sleeping" =>
         /\ _locks[chat_id].locked /\ _locks[chat_id].holder = t
         /\ tasks[t].wake_at = LastSend(chat_id) + MIN_INTERVAL_SECONDS

\* C21: for any interleaving of wait_if_needed calls, two consecutive
\* returns for the same chat_id are at least MIN_INTERVAL_SECONDS apart, and
\* calls for different chat_ids never wait on each other: a coroutine waits
\* only for the lock and the last send time of its own chat, and a call for
\* a chat nobody is in, whose last send is MIN_INTERVAL_SECONDS or more ago,
\* returns at once whatever goes on for the other chats.
C21_PerChatInterval ==
  /\ [](\A chat_id \in Chats :
          (returned_at[chat_id].prev # None /\ returned_at[chat_id].last # None) =>
            Val(returned_at[chat_id].last) - Val(returned_at[chat_id].prev)
              >= MIN_INTERVAL_SECONDS)
  /\ []HeldUpByOwnChat
  /\ [][\A t \in RateTasks, chat_id \in Chats :
          (/\ tasks[t].pc = "idle"
           /\ ev'.type \in {"queued", "sleep", "return"}
           /\ ev'.t = t /\ ev'.chat_id = chat_id
           /\ ChatQuiet(chat_id)
           /\ now - LastSend(chat_id) >= MIN_INTERVAL_SECONDS) =>
            ev'.type = "return"]_vars

\* Chat 100 has had two returns exactly MIN_INTERVAL_SECONDS apart and a
\* coroutine sleeps for it again, while a call for chat 101 has returned
\* in the meantime without a wait.
C21_Witness ==
  /\ returned_at[100].prev # None
  /\ Val(returned_at[100].last) - Val(returned_at[100].prev) = MIN_INTERVAL_SECONDS
  /\ \E t \in RateTasks : tasks[t].pc = "sleeping" /\ tasks[t].chat_id = 100
  /\ \E t \in RateTasks : tasks[t].pc = "waiting" /\ tasks[t].chat_id = 100
  /\ returned_at[101].last = Some(now)
  /\ ev.type = "return" /\ ev.chat_id = 101

\* ========================================= claims, daily signal pipeline
\* C22: for any sequence or interleaving of run_daily_signal_broadcast
\* invocations, signal_runs holds at most one run per market and UTC date:
\* only the first invocation creates one, later ones reuse it.
C22_OneRunPerMarketAndDay ==
  \A i, j \in 1..Len(signal_runs) :
    (/\ signal_runs[i].market_condition_id = signal_runs[j].market_condition_id
     /\ signal_runs[i].run_at = signal_runs[j].run_at) => i = j

\* ============================================= claims, outcome recording
\* C23: whatever record_run_outcome and run_eod_outcomes calls are made, a
\* run whose outcome is set keeps its outcome, actual_result and
\* resolved_at; a record_run_outcome call with an outcome label outside
\* {WIN, LOSS, SKIP}, or with an actual_result given and outside {YES, NO},
\* raises ValueError, writes nothing and leaves no write behind.
C23_OutcomeWriteOnce ==
  /\ [][\A i \in 1..Len(signal_runs) :
          signal_runs[i].outcome # None =>
            /\ i <= Len(signal_runs')
            /\ signal_runs'[i] = signal_runs[i]]_vars
  /\ [][ev'.type = "record_call" =>
          /\ ev'.raised = "ValueError" <=>
               \/ ev'.outcome \notin {"WIN", "LOSS", "SKIP"}
               \/ ev'.actual_result \notin {None, Some("YES"), Some("NO")}
          /\ ev'.raised = "ValueError" =>
               /\ signal_runs' = signal_runs
               /\ tasks'[ev'.t].pc # "updating"]_vars
  /\ [](\A t \in OutcomeTasks :
          tasks[t].pc = "updating" =>
            /\ tasks[t].outcome \in {"WIN", "LOSS", "SKIP"}
            /\ tasks[t].actual_result \in {None, Some("YES"), Some("NO")})

\* A record_run_outcome call for a run whose outcome is already set, with
\* another label, has run its UPDATE and changed nothing.
C23_Witness ==
  /\ ev.type = "update_0"
  /\ ev.signal_run_id \in 1..Len(signal_runs)
  /\ signal_runs[ev.signal_run_id].outcome # None
  /\ signal_runs[ev.signal_run_id].outcome # Some(ev.outcome)
  /\ signal_runs[ev.signal_run_id].resolved_at # Some(now)

====
